---- MODULE Spec2Model ----
(***************************************************************************)
(* Model of the Cardano index API core: the weighted index valuation      *)
(* (IndexService.calculate_index_price), the per-token quote fan-out       *)
(* (MuesliswapService.get_multiple_token_prices), the TTL cache of         *)
(* IndexService, and the background collector (HistoricalQuerier) with     *)
(* its snapshot table and status row.                                      *)
(*                                                                         *)
(* Numbers.  Python floats are modelled as exact rationals: a weight is    *)
(* the integer numerator of weight / WeightDen, a quote's price and        *)
(* market cap are integers, and a computed value is a pair <<num, den>>.   *)
(* Floating-point rounding is not modelled.  Time is an integer number of  *)
(* clock ticks, TicksPerSecond of them to the second.                      *)
(***************************************************************************)
EXTENDS Integers, Sequences, FiniteSets, TLC

VARIABLES
    \* --- one valuation, step by step (SpecVal, SpecAgg)
    vTokens,            \* index_tokens of the valuation
    vBase,              \* index.base_value
    vOutcome,           \* per-member outcome of get_token_price (ghost: what each fetch did)
    vPrices,            \* token_prices, the quote map handed to the aggregation
    vResult,            \* the PriceData returned or the exception raised
    vPc,                \* "fetch", "aggregate" or "done"
    \* --- IndexService cache and the wall clock
    cache,              \* IndexService._cache
    cache_timestamps,   \* IndexService._cache_timestamps
    now,                \* datetime.utcnow(), in ticks
    lastSet,            \* ghost: per key, the time and value of its most recent _set_cache
    served,             \* what the last calculate_index_price call returned
    \* --- HistoricalQuerier, its passes and the database
    is_running,         \* HistoricalQuerier.is_running
    loopPc,             \* where the task of _collection_loop is
    pass,               \* per executor ("loop", "forced"): the locals of _collect_all_data
    db_prices,          \* committed rows of historical_index_prices, in commit order
    db_status,          \* committed row of querier_status (NoRow before the first insert)
    index_config,       \* content of the index configuration file
    runSeq,             \* ghost: number of passes begun so far
    finished,           \* ghost: passes that ran to completion (returned or raised)
    finishedFailed,     \* ghost: those of them whose status update recorded a failure
    overlapped,         \* ghost: TRUE once two passes were in flight at the same time
    \* --- concurrent calls of calculate_index_price (SpecConc)
    calls,              \* per caller: where its call of calculate_index_price is
    \* --- the tasks of _collection_loop and the calls of start, stop and
    \* force_collection (SpecLoop)
    tasks,              \* every task start() created, in creation order
    task_ref,           \* HistoricalQuerier._task: index into tasks, 0 for None
    stopper,            \* the call of stop() that awaits its task, if any
    forcedPc,           \* "idle" or "running": the call of force_collection
    last_call,          \* ghost: the last step of start, stop or force_collection
    \* --- one request for the history of an index (SpecHist)
    hist,               \* the request, the locals of get_historical_prices, the response
    \* --- one call of select_tokens_dynamically (SpecSel)
    sel,                \* the criteria, the token list fetched, the tokens returned
    \* --- one conversion of a Linkage fund to an index (SpecFund)
    fund                \* the fund and the IndexMetadata made of it

valVars   == <<vTokens, vBase, vOutcome, vPrices, vResult, vPc>>
cacheVars == <<cache, cache_timestamps, now, lastSet, served>>
passVars  == <<loopPc, pass, db_prices, db_status, index_config, runSeq,
               finished, finishedFailed, overlapped>>
collVars  == <<is_running, passVars>>
concVars  == <<calls>>
loopVars  == <<tasks, task_ref, stopper, forcedPc, last_call>>
histVars  == <<hist, sel, fund>>
vars      == <<valVars, cacheVars, collVars, concVars, loopVars, histVars>>

-----------------------------------------------------------------------------
(* Bounds of the model *)

\* members per basket in the valuation specifications
MaxTokens == 3
\* weights are k / WeightDen for k in 0..WeightDen
WeightDen == 2
\* the clock stops at MaxTime ticks
MaxTime == 6
\* collection passes begun in one behaviour
MaxRuns == 3
\* ticks that can pass between two clock reads of one call
MaxElapse == 1
\* tasks of _collection_loop created in one behaviour (SpecLoop)
MaxTasks == 4
\* seconds per tick of the clock of SpecLoop
LoopTickSeconds == 30

(* Program constants, scaled *)

\* Settings.cache_ttl_seconds (300 in the source)
cache_ttl_seconds == 2
\* resolution of the clock: ticks per second (datetime has microseconds)
TicksPerSecond == 2

(* Program constants, as in the source *)

\* Settings.querier_startup_delay_seconds
querier_startup_delay_seconds == 30
\* Settings.querier_interval_minutes
querier_interval_minutes == 15
\* the argument of asyncio.sleep in the error handler of _collection_loop
backoff_seconds == 60

-----------------------------------------------------------------------------
(* Rationals as <<numerator, denominator>>, denominator > 0 *)

Frac(n, d) == <<n, d>>

FracEq(a, b) == a[1] * b[2] = b[1] * a[2]

Zero == Frac(0, 1)

Min(a, b) == IF a <= b THEN a ELSE b

RECURSIVE SumOver(_, _)
\* the sum of f[x] over the finite set S
SumOver(S, f) ==
    IF S = {} THEN 0
    ELSE LET x == CHOOSE y \in S : TRUE
         IN f[x] + SumOver(S \ {x}, f)

-----------------------------------------------------------------------------
(* Quotes, tokens, baskets *)

TokenNames == {"X", "Y", "Z"}

\* MuesliswapPriceData, the fields the valuation reads
QuoteA == [price |-> 2, marketCap |-> 10, priceChange |-> ("24h" :> 4 @@ "7d" :> -2)]

QuoteB == [price |-> 3, marketCap |-> 7, priceChange |-> ("24h" :> 1)]

Quotes == {QuoteA, QuoteB}

\* the outcome of a get_token_price call that raised (no quote)
FetchFailed == [price |-> 0, marketCap |-> 0, priceChange |-> [w \in {} |-> 0]]

\* TokenInfo: name and weight (weight / WeightDen in [0, 1])
Tokens == [name : TokenNames, weight : 0..WeightDen]

DistinctNames(s) == \A i, j \in 1..Len(s) : i # j => s[i].name # s[j].name

\* baskets of at most MaxTokens members with pairwise distinct names
Baskets ==
    {s \in UNION {[1..k -> Tokens] : k \in 0..MaxTokens} : DistinctNames(s)}

\* IndexMetadata.base_value (default 100.0)
Bases == {1, 100}

\* quote maps keyed by token name
QuoteMaps == UNION {[S -> Quotes] : S \in SUBSET TokenNames}

EmptyMap == [n \in {} |-> QuoteA]

-----------------------------------------------------------------------------
(* MuesliswapService.get_multiple_token_prices *)

RECURSIVE GatherResults(_, _, _, _)
\* the loop over (token_name, task): a task that raised is skipped
GatherResults(tokens, outcome, i, results) ==
    IF i > Len(tokens) THEN results
    ELSE IF outcome[i] = FetchFailed
         THEN GatherResults(tokens, outcome, i + 1, results)
         ELSE GatherResults(tokens, outcome, i + 1,
                            (tokens[i].name :> outcome[i]) @@ results)

\* variant: a failed fetch enters the map as an all-zero quote
GetMultipleTokenPricesKeepFailed(tokens, outcome) ==
    [n \in {tokens[i].name : i \in 1..Len(tokens)} |->
        outcome[CHOOSE i \in 1..Len(tokens) : tokens[i].name = n]]

GetMultipleTokenPrices(tokens, outcome) ==
    GatherResults(tokens, outcome, 1, EmptyMap)

\* every way the fetches of one valuation can end
FetchOutcomes(tokens) == [1..Len(tokens) -> Quotes \cup {FetchFailed}]

-----------------------------------------------------------------------------
(* IndexService.calculate_index_price: the aggregation *)

ErrNotFound == "Index not found"

ErrNoTokens == "No tokens available for index"

ErrNoQuotes == "No price data available for index"

ErrNoValidWeight == "No valid price data for index"

Raise(msg) ==
    [ok |-> FALSE, error |-> msg, price |-> Zero, market_cap |-> Zero,
     price_change_24h |-> Zero, price_change_7d |-> Zero]

AccInit ==
    [total_weighted_price |-> 0, total_market_cap |-> 0, total_weight |-> 0,
     price_change_24h |-> 0, price_change_7d |-> 0]

\* whether the aggregation loop takes the member: "if token.name in token_prices"
HasQuote(token, token_prices) == token.name \in DOMAIN token_prices

\* the body of the loop for one member with a quote (all sums over WeightDen)
AccAdd(acc, token, price_data) ==
    [total_weighted_price |-> acc.total_weighted_price + price_data.price * token.weight,
     total_market_cap     |-> acc.total_market_cap + price_data.marketCap * token.weight,
     total_weight         |-> acc.total_weight + token.weight,
     price_change_24h     |->
        IF "24h" \in DOMAIN price_data.priceChange
        THEN acc.price_change_24h + price_data.priceChange["24h"] * token.weight
        ELSE acc.price_change_24h,
     price_change_7d      |->
        IF "7d" \in DOMAIN price_data.priceChange
        THEN acc.price_change_7d + price_data.priceChange["7d"] * token.weight
        ELSE acc.price_change_7d]

RECURSIVE Accumulate(_, _, _, _)
\* "for token in index_tokens"
Accumulate(tokens, token_prices, i, acc) ==
    IF i > Len(tokens) THEN acc
    ELSE IF HasQuote(tokens[i], token_prices)
         THEN Accumulate(tokens, token_prices, i + 1,
                         AccAdd(acc, tokens[i], token_prices[tokens[i].name]))
         ELSE Accumulate(tokens, token_prices, i + 1, acc)

\* final_price = (total_weighted_price / total_weight) * index.base_value
FinalPrice(acc, base_value) ==
    Frac(acc.total_weighted_price * base_value, acc.total_weight)

\* variant: the market cap averaged like the price (divided by the weight sum)
FinalMarketCapAveraged(acc) == Frac(acc.total_market_cap, acc.total_weight)

\* market_cap = total_market_cap
FinalMarketCap(acc) == Frac(acc.total_market_cap, WeightDen)

\* "if not token_prices"
NoTokenPrices(tokens, token_prices) == DOMAIN token_prices = {}

\* lines 213-251: from the quote map to the PriceData or the exception
Aggregate(tokens, token_prices, base_value) ==
    IF NoTokenPrices(tokens, token_prices) THEN Raise(ErrNoQuotes)
    ELSE LET acc == Accumulate(tokens, token_prices, 1, AccInit)
         IN IF acc.total_weight = 0 THEN Raise(ErrNoValidWeight)
            ELSE [ok |-> TRUE, error |-> "none",
                  price |-> FinalPrice(acc, base_value),
                  market_cap |-> FinalMarketCap(acc),
                  price_change_24h |-> Frac(acc.price_change_24h, acc.total_weight),
                  price_change_7d  |-> Frac(acc.price_change_7d, acc.total_weight)]

\* variant: the valuation without the test for an empty member list
ValueTokensUnchecked(tokens, token_prices, base_value) ==
    Aggregate(tokens, token_prices, base_value)

\* lines 207-251: the token check, then the aggregation of the fetched quotes
ValueTokens(tokens, token_prices, base_value) ==
    IF Len(tokens) = 0 THEN Raise(ErrNoTokens)
    ELSE Aggregate(tokens, token_prices, base_value)

-----------------------------------------------------------------------------
(* Index configuration: IndexService.load_indexes_config, get_index_by_id *)

IndexA == [id |-> "A", base_value |-> 100, is_dynamic |-> FALSE,
           tokens |-> <<[name |-> "X", weight |-> 1], [name |-> "Y", weight |-> 1]>>]

IndexB == [id |-> "B", base_value |-> 100, is_dynamic |-> FALSE,
           tokens |-> <<[name |-> "Z", weight |-> 2]>>]

\* an index without tokens
IndexC == [id |-> "C", base_value |-> 100, is_dynamic |-> FALSE, tokens |-> <<>>]

\* an index whose only token has weight 0
IndexD == [id |-> "D", base_value |-> 100, is_dynamic |-> FALSE,
           tokens |-> <<[name |-> "Y", weight |-> 0]>>]

IndexE == [id |-> "E", base_value |-> 100, is_dynamic |-> FALSE, tokens |-> <<>>]

\* a dynamic index: its tokens come from select_tokens_dynamically
IndexF == [id |-> "F", base_value |-> 100, is_dynamic |-> TRUE, tokens |-> <<>>]

\* the file of the cache specification: a valued index, the three ways a
\* static index fails, a dynamic index
FullConfig == <<IndexB, IndexC, IndexD, IndexF>>

\* the file the collector reads: a failure can come before a success, and a
\* pass can fail on more than three baskets
CollectorConfig == <<IndexA, IndexC, IndexB, IndexE>>


\* contents of the configuration file: missing or empty, three indexes, four
Configs == {<<>>, CollectorConfig}

IndexIds == {"A", "B", "C", "D", "E", "F", "nonexistent"}

None == "None"

\* get_index_by_id found nothing
NoIndex == [id |-> None, base_value |-> 0, is_dynamic |-> FALSE, tokens |-> <<>>]

RECURSIVE FindIndex(_, _, _)
\* "for index in indexes: if index.id == index_id: return index"
FindIndex(indexes, index_id, i) ==
    IF i > Len(indexes) THEN NoIndex
    ELSE IF indexes[i].id = index_id THEN indexes[i]
         ELSE FindIndex(indexes, index_id, i + 1)

GetIndexById(indexes, index_id) == FindIndex(indexes, index_id, 1)

\* what the quote source answers for a token when its fetch succeeds
MarketQuote(name) == IF name = "Y" THEN QuoteB ELSE QuoteA

\* the fetch outcomes of one valuation against that market
MarketOutcomes(tokens) ==
    {o \in FetchOutcomes(tokens) :
        \A i \in 1..Len(tokens) : o[i] \in {FetchFailed, MarketQuote(tokens[i].name)}}

-----------------------------------------------------------------------------
(* IndexService cache: _is_cache_valid, _get_from_cache, _set_cache *)

TtlTicks == cache_ttl_seconds * TicksPerSecond

\* cache_key = f"price_{index_id}"
PriceKey(index_id) == <<"price", index_id>>

\* cache_key = f"dynamic_tokens_{index.id}"
DynamicKey(index_id) == <<"dynamic_tokens", index_id>>

CacheKeys == {PriceKey(i) : i \in IndexIds} \cup {DynamicKey("F")}

\* a lookup that found nothing valid ("return None")
NoData == Raise(None)

EmptyCache == [k \in {} |-> NoData]

NoTimes == [k \in {} |-> 0]

\* "datetime.utcnow() < timestamp + timedelta(seconds=cache_ttl_seconds)"
\* variant: an entry aged exactly the TTL still counts as valid
NotExpiredInclusive(timestamp, t) == t <= timestamp + TtlTicks

NotExpired(timestamp, t) == t < timestamp + TtlTicks

IsCacheValid(timestamps, cache_key, t) ==
    IF cache_key \notin DOMAIN timestamps THEN FALSE
    ELSE NotExpired(timestamps[cache_key], t)

GetFromCache(c, timestamps, cache_key, t) ==
    IF IsCacheValid(timestamps, cache_key, t)
    THEN IF cache_key \in DOMAIN c THEN c[cache_key] ELSE NoData
    ELSE NoData

\* self._cache[cache_key] = data
SetCacheData(c, cache_key, data) == (cache_key :> data) @@ c

\* variant: the fetch time of a key already present is kept
SetCacheTimeKeepFirst(timestamps, cache_key, t) ==
    IF cache_key \in DOMAIN timestamps THEN timestamps
    ELSE (cache_key :> t) @@ timestamps

\* self._cache_timestamps[cache_key] = datetime.utcnow()
SetCacheTime(timestamps, cache_key, t) == (cache_key :> t) @@ timestamps

\* int((datetime.utcnow() - self._cache_timestamps[cache_key]).total_seconds())
CacheAgeSeconds(timestamps, cache_key, t) ==
    (t - timestamps[cache_key]) \div TicksPerSecond

-----------------------------------------------------------------------------
(* IndexService.get_index_tokens *)

\* select_tokens_dynamically raised
SelectFailed == [ok |-> FALSE, tokens |-> <<>>]

\* select_tokens_dynamically returned the list tokens
Selected(tokens) == [ok |-> TRUE, tokens |-> tokens]

\* what a dynamic selection can do: raise, select nothing, select one token
Selections ==
    {SelectFailed, Selected(<<>>), Selected(<<[name |-> "Z", weight |-> 1]>>)}

\* "cached_tokens = self._get_from_cache(cache_key)", read by "if
\* cached_tokens:", for which None and the empty list are the same
TokensFromCache(c, timestamps, cache_key, t) ==
    IF IsCacheValid(timestamps, cache_key, t) /\ cache_key \in DOMAIN c
    THEN c[cache_key]
    ELSE <<>>

TokensReturn(tokens, c, timestamps, selected) ==
    [tokens |-> tokens, cache |-> c, cache_timestamps |-> timestamps,
     selected |-> selected]

\* lines 158-181: the tokens of the index and the cache afterwards
GetIndexTokens(index, c, timestamps, t1, t2, selection) ==
    IF index.is_dynamic
    THEN LET cache_key == DynamicKey(index.id)
             cached_tokens == TokensFromCache(c, timestamps, cache_key, t1)
         IN IF cached_tokens # <<>>
            THEN TokensReturn(cached_tokens, c, timestamps, FALSE)
            ELSE IF selection.ok
            THEN TokensReturn(selection.tokens,
                              SetCacheData(c, cache_key, selection.tokens),
                              SetCacheTime(timestamps, cache_key, t2), TRUE)
            ELSE TokensReturn(<<>>, c, timestamps, FALSE)
    ELSE TokensReturn(index.tokens, c, timestamps, FALSE)

-----------------------------------------------------------------------------
(* IndexService.calculate_index_price, the whole call                      *)
(* t1 is the clock when the cache is looked up, t2 the clock at the call's *)
(* later read (the age of a hit, or the timestamp of _set_cache);          *)
(* cfg is what load_indexes_config returns, ConfigUnreadable when it raises; *)
(* selection is what a dynamic selection does if it is called; outcome is  *)
(* what the quote fetches did.                                             *)

ConfigError == "Config loading error"

\* load_indexes_config raised instead of returning a list
ConfigUnreadable == <<NoIndex>>

CalcReturn(result, hit, age, c, timestamps, fetched) ==
    [result |-> result, hit |-> hit, cache_age_seconds |-> age,
     cache |-> c, cache_timestamps |-> timestamps, fetched |-> fetched,
     selected |-> FALSE]

\* variant: a hit restarts the lifetime of the entry
HitTimestampsRefreshed(timestamps, cache_key, t) == SetCacheTime(timestamps, cache_key, t)

\* lines 194-197: a hit stores nothing; the age goes on a copy of the value
HitTimestamps(timestamps, cache_key, t) == timestamps

\* variant: the failed valuation is remembered under the key
FailureCacheNegative(c, cache_key, result) == SetCacheData(c, cache_key, result)

\* lines 256-258: the exception is logged and raised again, nothing is stored
FailureCache(c, cache_key, result) == c

CalculateIndexPrice(index_id, cfg, c, timestamps, t1, t2, selection, outcome) ==
    LET cache_key == PriceKey(index_id)
        cached_data == GetFromCache(c, timestamps, cache_key, t1)
    IN IF cached_data # NoData
       THEN CalcReturn(cached_data, TRUE, CacheAgeSeconds(timestamps, cache_key, t2),
                       c, HitTimestamps(timestamps, cache_key, t2), FALSE)
       ELSE IF cfg = ConfigUnreadable
       THEN CalcReturn(Raise(ConfigError), FALSE, 0, c, timestamps, FALSE)
       ELSE LET index == GetIndexById(cfg, index_id)
            IN IF index = NoIndex
               THEN CalcReturn(Raise(ErrNotFound), FALSE, 0, c, timestamps, FALSE)
               ELSE LET it == GetIndexTokens(index, c, timestamps, t1, t2, selection)
                        result == ValueTokens(it.tokens,
                                      GetMultipleTokenPrices(it.tokens, outcome),
                                      index.base_value)
                    IN IF result.ok
                       THEN [CalcReturn(result, FALSE, 0,
                                        SetCacheData(it.cache, cache_key, result),
                                        SetCacheTime(it.cache_timestamps, cache_key, t2),
                                        Len(it.tokens) > 0)
                               EXCEPT !.selected = it.selected]
                       ELSE [CalcReturn(result, FALSE, 0,
                                        FailureCache(it.cache, cache_key, result),
                                        it.cache_timestamps,
                                        Len(it.tokens) > 0)
                               EXCEPT !.selected = it.selected]

\* the selection outcomes a call for index_id can meet
SelectionsFor(index_id, cfg) ==
    IF cfg = ConfigUnreadable THEN {SelectFailed}
    ELSE IF GetIndexById(cfg, index_id).is_dynamic THEN Selections
         ELSE {SelectFailed}

\* the tokens a call for index_id goes on to fetch quotes for
TokensUsed(index_id, cfg, c, timestamps, t1, t2, selection) ==
    IF cfg = ConfigUnreadable THEN <<>>
    ELSE GetIndexTokens(GetIndexById(cfg, index_id), c, timestamps, t1, t2,
                        selection).tokens

\* the fetch outcomes a call for index_id can meet under configuration cfg
OutcomesFor(index_id, cfg) ==
    IF cfg = ConfigUnreadable THEN {<<>>}
    ELSE LET index == GetIndexById(cfg, index_id)
         IN IF index = NoIndex THEN {<<>>} ELSE MarketOutcomes(index.tokens)

NoCall ==
    [index_id |-> None, hit |-> FALSE, result |-> NoData, cache_age_seconds |-> 0,
     checked_at |-> 0, read_at |-> 0, stored_at |-> 0]

-----------------------------------------------------------------------------
(* The collector is idle in the valuation and cache specifications *)

\* a message column: Python None, or the "; ".join of the parts
NoMessage == [null |-> TRUE, parts |-> <<>>]

Joined(parts) == [null |-> FALSE, parts |-> parts]

\* querier_status before the first insert
NoRow == [exists |-> FALSE, total_runs |-> 0, successful_runs |-> 0, failed_runs |-> 0,
          last_error_message |-> NoMessage]

\* a session that has no status change to flush
NoWrite == [kind |-> "none", success |-> FALSE, row |-> NoRow]

\* the locals of _collect_all_data before it is called
IdlePass ==
    [pc |-> "idle", run |-> 0, start_time |-> 0, indexes |-> <<>>, idx |-> 0,
     successful_indexes |-> 0, failed_indexes |-> 0, errors |-> <<>>,
     pending |-> <<>>, valued |-> <<>>,
     status_calls |-> 0, status_success |-> FALSE, status_message |-> NoMessage,
     status_write |-> NoWrite, critical |-> None, read_failed |-> FALSE]

Executors == {"loop", "forced"}

CollectorIdleOn(cfg) ==
    /\ is_running = FALSE
    /\ loopPc = "none"
    /\ pass = [p \in Executors |-> IdlePass]
    /\ db_prices = <<>>
    /\ db_status = NoRow
    /\ index_config = cfg
    /\ runSeq = 0
    /\ finished = 0
    /\ finishedFailed = 0
    /\ overlapped = FALSE

CollectorIdle == CollectorIdleOn(FullConfig)

CacheIdle ==
    /\ cache = EmptyCache
    /\ cache_timestamps = NoTimes
    /\ now = 0
    /\ lastSet = [k \in {} |-> [t |-> 0, value |-> NoData]]
    /\ served = NoCall

ValuationIdle ==
    /\ vTokens = <<>>
    /\ vBase = 100
    /\ vOutcome = <<>>
    /\ vPrices = EmptyMap
    /\ vResult = NoData
    /\ vPc = "done"

\* the callers of the API whose calls may be in flight at the same time
Callers == {"c1", "c2"}

\* a caller outside calculate_index_price
NoCallInFlight == [pc |-> "idle", index_id |-> None, rivals |-> {}, set_value |-> NoData,
                   raced |-> FALSE]

ConcIdle == calls = [c \in Callers |-> NoCallInFlight]

\* no call of start, stop or force_collection made yet
NoApiCall == [op |-> "none", flip |-> FALSE]

NotStopping == [pc |-> "idle", task |-> 0]

\* HistoricalQuerier.__init__: no task, and no call in progress
LoopIdle ==
    /\ tasks = <<>>
    /\ task_ref = 0
    /\ stopper = NotStopping
    /\ forcedPc = "idle"
    /\ last_call = NoApiCall

\* a naive datetime
DateTime(y, mo, d, h, mi, sec, us) ==
    [year |-> y, month |-> mo, day |-> d, hour |-> h, minute |-> mi,
     second |-> sec, microsecond |-> us]

\* an argument that was not given
NoDate == DateTime(0, 0, 0, 0, 0, 0, 0)

\* the fields of a request that has not come in
NoRequest ==
    [pc |-> "none", index_id |-> None, start_date |-> NoDate, end_date |-> NoDate,
     interval |-> None, status_code |-> 0, looked_up |-> FALSE, queried |-> FALSE,
     db_records |-> <<>>, response |-> <<>>]

\* DynamicSelectionCriteria before a call was made
NoCriteria ==
    [selection_method |-> None, limit |-> 0, min_volume_ada |-> 0, min_market_cap |-> 0,
     exclude_tokens |-> {}, include_categories |-> {}, weighting_method |-> None]

\* no call of select_tokens_dynamically made
NoSelection ==
    [pc |-> "none", criteria |-> NoCriteria, market |-> <<>>, fetch_ok |-> FALSE,
     raised |-> FALSE, tokens |-> <<>>, calls |-> 0]

\* no fund converted
NoConversion ==
    [pc |-> "none", tokens |-> <<>>, factors |-> <<>>, raised |-> FALSE, members |-> <<>>]

HistIdle ==
    /\ hist = NoRequest
    /\ sel = NoSelection
    /\ fund = NoConversion

-----------------------------------------------------------------------------
(* SpecAgg: the aggregation of calculate_index_price as a function of the  *)
(* basket and of the quote map it is handed                                *)

InitAgg ==
    /\ vTokens \in Baskets
    /\ vBase \in Bases
    /\ vOutcome = <<>>
    /\ vPrices \in QuoteMaps
    /\ vResult = NoData
    /\ vPc = "aggregate"
    /\ CacheIdle
    /\ CollectorIdle
    /\ ConcIdle
    /\ LoopIdle
    /\ HistIdle

\* lines 207-251 of calculate_index_price
AggregateStep ==
    /\ vPc = "aggregate"
    /\ vResult' = ValueTokens(vTokens, vPrices, vBase)
    /\ vPc' = "done"
    /\ UNCHANGED <<vTokens, vBase, vOutcome, vPrices, cacheVars, collVars, concVars,
                   loopVars, histVars>>

NextAgg == AggregateStep

SpecAgg == InitAgg /\ [][NextAgg]_vars

-----------------------------------------------------------------------------
(* SpecVal: one valuation, the quotes fetched per member *)

InitVal ==
    /\ vTokens \in Baskets
    /\ vBase \in Bases
    /\ vOutcome = <<>>
    /\ vPrices = EmptyMap
    /\ vResult = NoData
    /\ vPc = "fetch"
    /\ CacheIdle
    /\ CollectorIdle
    /\ ConcIdle
    /\ LoopIdle
    /\ HistIdle

\* line 211: token_prices = await get_multiple_token_prices(index_tokens)
FetchStep ==
    /\ vPc = "fetch"
    /\ \E outcome \in FetchOutcomes(vTokens) :
          /\ vOutcome' = outcome
          /\ vPrices' = GetMultipleTokenPrices(vTokens, outcome)
    /\ vPc' = "aggregate"
    /\ UNCHANGED <<vTokens, vBase, vResult, cacheVars, collVars, concVars, loopVars, histVars>>

NextVal == FetchStep \/ AggregateStep

SpecVal == InitVal /\ [][NextVal]_vars


-----------------------------------------------------------------------------
(* SpecCache: calls of calculate_index_price against the cache while the   *)
(* clock runs                                                              *)

InitCache ==
    /\ ValuationIdle
    /\ CacheIdle
    /\ CollectorIdle
    /\ ConcIdle
    /\ LoopIdle
    /\ HistIdle

\* time passes between two calls
Tick ==
    /\ now < MaxTime
    /\ now' = now + 1
    /\ UNCHANGED <<cache, cache_timestamps, lastSet, served, valVars, collVars,
                   concVars, loopVars, histVars>>

\* what a call leaves in "served": the result with the clock reads of the call
ServedBy(index_id, r, timestamps, t1, t2) ==
    [index_id |-> index_id, hit |-> r.hit, result |-> r.result,
     cache_age_seconds |-> r.cache_age_seconds,
     checked_at |-> t1, read_at |-> t2,
     stored_at |-> IF r.hit THEN timestamps[PriceKey(index_id)] ELSE t2]

\* ghost: the record of the most recent _set_cache per key
LastSetAfter(index_id, r, t2) ==
    LET dyn == IF r.selected
               THEN (DynamicKey(index_id) :>
                        [t |-> t2, value |-> r.cache[DynamicKey(index_id)]]) @@ lastSet
               ELSE lastSet
    IN IF r.fetched /\ r.result.ok
       THEN (PriceKey(index_id) :> [t |-> t2, value |-> r.result]) @@ dyn
       ELSE dyn

\* one call of calculate_index_price(index_id): the first clock read (the
\* validity test of line 131) at "now", the later one (the age of line 196
\* on a hit, the store of line 141 on a miss) up to MaxElapse ticks after
CalcPrice(index_id) ==
    \E t2 \in now..Min(now + MaxElapse, MaxTime) :
    \E selection \in SelectionsFor(index_id, index_config) :
    \E outcome \in MarketOutcomes(TokensUsed(index_id, index_config, cache,
                                             cache_timestamps, now, t2, selection)) :
        LET r == CalculateIndexPrice(index_id, index_config, cache, cache_timestamps,
                                     now, t2, selection, outcome)
        IN /\ cache' = r.cache
           /\ cache_timestamps' = r.cache_timestamps
           /\ now' = t2
           /\ served' = ServedBy(index_id, r, cache_timestamps, now, t2)
           /\ lastSet' = LastSetAfter(index_id, r, t2)
           /\ UNCHANGED <<valVars, collVars, concVars, loopVars, histVars>>

NextCache ==
    \/ Tick
    \/ \E index_id \in IndexIds : CalcPrice(index_id)

SpecCache == InitCache /\ [][NextCache]_vars

-----------------------------------------------------------------------------
(* SpecConc: calls of calculate_index_price interleaved on the one event   *)
(* loop of the process.  A coroutine runs without interruption from one   *)
(* await that suspends it to the next: the lookup of lines 192-209 is one  *)
(* step, the call is suspended while the quotes are fetched (line 211),    *)
(* and lines 213-255, _set_cache included, are the next step.              *)

\* the configuration file of this specification: one static basket whose
\* valuation has three different successful results
ConcConfig == <<IndexA>>

ConcIds == {"A", "nonexistent"}

InitConc ==
    /\ ValuationIdle
    /\ CacheIdle
    /\ CollectorIdleOn(ConcConfig)
    /\ ConcIdle
    /\ LoopIdle
    /\ HistIdle

\* lines 192-200 miss and line 203 finds the index: the call goes on to
\* fetch quotes
ReachesFetch(index_id) ==
    /\ GetFromCache(cache, cache_timestamps, PriceKey(index_id), now) = NoData
    /\ GetIndexById(index_config, index_id) # NoIndex

\* ghost: the set of a call that ran while another call for the same index
\* was in flight, and that call stored something too
SetRaced(c, index_id) ==
    \E d \in Callers \ {c} :
        /\ calls[d].index_id = index_id
        /\ calls[d].set_value # NoData
        /\ (d \in calls[c].rivals \/ c \in calls[d].rivals)

\* caller c enters calculate_index_price(index_id) and runs to its first
\* suspension, or to its return when it does not fetch
ConcBegin(c, index_id) ==
    /\ calls[c].pc = "idle"
    /\ IF ReachesFetch(index_id)
       THEN /\ calls' = [calls EXCEPT ![c] =
                            [pc |-> "fetching", index_id |-> index_id,
                             rivals |-> {d \in Callers \ {c} :
                                            /\ calls[d].pc = "fetching"
                                            /\ calls[d].index_id = index_id},
                             set_value |-> NoData, raced |-> FALSE]]
            /\ UNCHANGED <<cache, cache_timestamps, served>>
       ELSE LET r == CalculateIndexPrice(index_id, index_config, cache,
                                         cache_timestamps, now, now, SelectFailed, <<>>)
            IN /\ cache' = r.cache
               /\ cache_timestamps' = r.cache_timestamps
               /\ served' = ServedBy(index_id, r, cache_timestamps, now, now)
               /\ UNCHANGED calls
    /\ UNCHANGED <<now, lastSet, valVars, collVars, loopVars, histVars>>

\* the quotes of caller c arrive: lines 213-255, or 256-258 when the
\* valuation raises
ConcEnd(c) ==
    /\ calls[c].pc = "fetching"
    /\ LET index_id == calls[c].index_id
           index == GetIndexById(index_config, index_id)
           cache_key == PriceKey(index_id)
       IN \E outcome \in MarketOutcomes(index.tokens) :
            LET result == ValueTokens(index.tokens,
                                      GetMultipleTokenPrices(index.tokens, outcome),
                                      index.base_value)
            IN /\ cache' = IF result.ok THEN SetCacheData(cache, cache_key, result)
                                        ELSE FailureCache(cache, cache_key, result)
               /\ cache_timestamps' =
                     IF result.ok THEN SetCacheTime(cache_timestamps, cache_key, now)
                                  ELSE cache_timestamps
               /\ lastSet' = IF result.ok
                             THEN (cache_key :> [t |-> now, value |-> result]) @@ lastSet
                             ELSE lastSet
               /\ served' = [index_id |-> index_id, hit |-> FALSE, result |-> result,
                             cache_age_seconds |-> 0, checked_at |-> now,
                             read_at |-> now, stored_at |-> now]
               /\ calls' = [calls EXCEPT ![c] =
                              [@ EXCEPT !.pc = "idle",
                                        !.set_value = IF result.ok THEN result ELSE NoData,
                                        !.raced = result.ok /\ SetRaced(c, index_id)]]
    /\ UNCHANGED <<now, valVars, collVars, loopVars, histVars>>

NextConc ==
    \/ Tick
    \/ \E c \in Callers, index_id \in ConcIds : ConcBegin(c, index_id)
    \/ \E c \in Callers : ConcEnd(c)

SpecConc == InitConc /\ [][NextConc]_vars

-----------------------------------------------------------------------------
(* HistoricalQuerier._collect_all_data, one pass *)

InFlight(ps) ==
    ps.pc \in {"basket", "status", "commit", "crit_status", "crit_commit",
               "commit_invalid", "commit_aborted"}

\* lines 128-139: HistoricalIndexPrice of a valuation that returned
\* (run: ghost, the pass that added the row)
SuccessRecord(index, start_time, price_data, run) ==
    [index_id |-> index.id, timestamp |-> start_time,
     price |-> price_data.price, market_cap |-> price_data.market_cap,
     volume_24h |-> Zero,
     price_change_24h |-> price_data.price_change_24h,
     price_change_7d |-> price_data.price_change_7d,
     token_count |-> Len(index.tokens),
     calculation_successful |-> TRUE, error_message |-> None, run |-> run]

\* variant: the failed row is stored without its error text
FailedRecordNoText(index, start_time, e, run) ==
    [index_id |-> index.id, timestamp |-> start_time,
     price |-> Zero, market_cap |-> Zero,
     volume_24h |-> Zero, price_change_24h |-> Zero, price_change_7d |-> Zero,
     token_count |-> 0,
     calculation_successful |-> FALSE, error_message |-> None, run |-> run]

\* variant: the failed row is stamped when its valuation has failed
FailedRecordStampedNow(index, start_time, e, run) ==
    [index_id |-> index.id, timestamp |-> now,
     price |-> Zero, market_cap |-> Zero,
     volume_24h |-> Zero, price_change_24h |-> Zero, price_change_7d |-> Zero,
     token_count |-> 0,
     calculation_successful |-> FALSE, error_message |-> e, run |-> run]

\* lines 153-160: HistoricalIndexPrice of a valuation that raised e; the
\* columns not given take the defaults of the table
FailedRecord(index, start_time, e, run) ==
    [index_id |-> index.id, timestamp |-> start_time,
     price |-> Zero, market_cap |-> Zero,
     volume_24h |-> Zero, price_change_24h |-> Zero, price_change_7d |-> Zero,
     token_count |-> 0,
     calculation_successful |-> FALSE, error_message |-> e, run |-> run]

\* error_msg = f"Index {index.id}: {str(e)}"
ErrorMsg(index, e) == [index |-> index.id, text |-> e]

\* after the last basket the pass goes on to the status update
PcAfter(ps) == IF ps.idx >= Len(ps.indexes) THEN "status" ELSE "basket"

\* variant: the first failing basket ends the loop over the baskets
AfterBasketAbort(ps, index, result) ==
    IF result.ok
    THEN [ps EXCEPT !.pending = Append(@, SuccessRecord(index, ps.start_time, result, ps.run)),
                    !.successful_indexes = @ + 1,
                    !.valued = Append(@, [index_id |-> index.id, ok |-> TRUE, error |-> None]),
                    !.idx = @ + 1,
                    !.pc = PcAfter(ps)]
    ELSE [ps EXCEPT !.pending = Append(@, FailedRecord(index, ps.start_time, result.error, ps.run)),
                    !.failed_indexes = @ + 1,
                    !.errors = Append(@, ErrorMsg(index, result.error)),
                    !.valued = Append(@, [index_id |-> index.id, ok |-> FALSE,
                                          error |-> result.error]),
                    !.idx = @ + 1,
                    !.pc = "status"]

\* lines 123-161: one iteration of "for index in indexes", result being what
\* calculate_index_price returned or raised (valued: ghost, the calls made)
AfterBasket(ps, index, result) ==
    IF result.ok
    THEN [ps EXCEPT !.pending = Append(@, SuccessRecord(index, ps.start_time, result, ps.run)),
                    !.successful_indexes = @ + 1,
                    !.valued = Append(@, [index_id |-> index.id, ok |-> TRUE, error |-> None]),
                    !.idx = @ + 1,
                    !.pc = PcAfter(ps)]
    ELSE [ps EXCEPT !.pending = Append(@, FailedRecord(index, ps.start_time, result.error, ps.run)),
                    !.failed_indexes = @ + 1,
                    !.errors = Append(@, ErrorMsg(index, result.error)),
                    !.valued = Append(@, [index_id |-> index.id, ok |-> FALSE,
                                          error |-> result.error]),
                    !.idx = @ + 1,
                    !.pc = PcAfter(ps)]

\* line 165: successful_indexes > 0
StatusSuccess(ps) == ps.successful_indexes > 0

\* variant: every error of the pass is joined
StatusMessageAll(ps) ==
    IF ps.successful_indexes > 0 THEN NoMessage ELSE Joined(ps.errors)

\* line 166: None if successful_indexes > 0 else "; ".join(errors[:3])
StatusMessage(ps) ==
    IF ps.successful_indexes > 0 THEN NoMessage
    ELSE Joined(SubSeq(ps.errors, 1, Min(3, Len(ps.errors))))

\* variant: a failed run leaves total_runs as it was
UpdateQuerierStatusMiscount(status_record, success, error_message) ==
    IF ~status_record.exists
    THEN [kind |-> "insert", success |-> success,
          row |-> [exists |-> TRUE, total_runs |-> 1,
                   successful_runs |-> IF success THEN 1 ELSE 0,
                   failed_runs |-> IF success THEN 0 ELSE 1,
                   last_error_message |-> IF success THEN NoMessage ELSE error_message]]
    ELSE [kind |-> "update", success |-> success,
          row |-> [status_record EXCEPT
                     !.total_runs = IF success THEN @ + 1 ELSE @,
                     !.successful_runs = IF success THEN @ + 1 ELSE @,
                     !.failed_runs = IF success THEN @ ELSE @ + 1,
                     !.last_error_message = IF success THEN @ ELSE error_message]]

\* lines 199-229 of _update_querier_status: the change the session holds after
\* the call, from the row its SELECT returned
UpdateQuerierStatus(status_record, success, error_message) ==
    IF ~status_record.exists
    THEN [kind |-> "insert", success |-> success,
          row |-> [exists |-> TRUE, total_runs |-> 1,
                   successful_runs |-> IF success THEN 1 ELSE 0,
                   failed_runs |-> IF success THEN 0 ELSE 1,
                   last_error_message |-> IF success THEN NoMessage ELSE error_message]]
    ELSE [kind |-> "update", success |-> success,
          row |-> [status_record EXCEPT
                     !.total_runs = @ + 1,
                     !.successful_runs = IF success THEN @ + 1 ELSE @,
                     !.failed_runs = IF success THEN @ ELSE @ + 1,
                     !.last_error_message = IF success THEN @ ELSE error_message]]

\* the INSERT of a second row with the same querier_name violates the unique
\* constraint of querier_status (models.py) and the commit raises
CommitRaises(committed, w) == w.kind = "insert" /\ committed.exists

\* the committed status row after the flush: an INSERT of the whole row, or an
\* UPDATE that sets the columns the session changed to the values it computed
Flushed(committed, w) ==
    IF w.kind = "insert" THEN w.row
    ELSE IF w.kind = "update"
    THEN [committed EXCEPT
            !.total_runs = w.row.total_runs,
            !.successful_runs = IF w.success THEN w.row.successful_runs ELSE @,
            !.failed_runs = IF w.success THEN @ ELSE w.row.failed_runs,
            !.last_error_message = IF w.success THEN @ ELSE w.row.last_error_message]
    ELSE committed

\* lines 112-121: the locals are set and the configuration is loaded
Begun(run, t, cfg) ==
    IF cfg = ConfigUnreadable
    THEN [IdlePass EXCEPT !.pc = "crit_status", !.run = run, !.start_time = t,
                          !.critical = ConfigError]
    ELSE [IdlePass EXCEPT !.pc = IF Len(cfg) = 0 THEN "status" ELSE "basket",
                          !.run = run, !.start_time = t, !.indexes = cfg, !.idx = 1]

\* the fetch outcomes a basket meets in a pass: every member quoted, or none
CollectorOutcomes(index_id, cfg) ==
    {o \in OutcomesFor(index_id, cfg) :
        \/ \A i \in DOMAIN o : o[i] = FetchFailed
        \/ \A i \in DOMAIN o : o[i] # FetchFailed}

-----------------------------------------------------------------------------
(* Spec: the collector, its loop task, forced passes and the database.     *)
(* The store honours its contract (a SELECT and a commit succeed) except   *)
(* for the unique constraint of querier_status; the sessions of two passes *)
(* see committed rows only.                                                *)

ConfigFiles == Configs \cup {ConfigUnreadable}

Init ==
    /\ ValuationIdle
    /\ CacheIdle
    /\ is_running = FALSE
    /\ loopPc = "none"
    /\ pass = [p \in Executors |-> IdlePass]
    /\ db_prices = <<>>
    /\ db_status = NoRow
    /\ index_config \in ConfigFiles
    /\ runSeq = 0
    /\ finished = 0
    /\ finishedFailed = 0
    /\ overlapped = FALSE
    /\ ConcIdle
    /\ LoopIdle
    /\ HistIdle

\* _collect_all_data is entered by executor p (lines 112-121)
BeginPass(p) ==
    /\ ~InFlight(pass[p])
    /\ runSeq < MaxRuns
    /\ runSeq' = runSeq + 1
    /\ pass' = [pass EXCEPT ![p] = Begun(runSeq + 1, now, index_config)]
    /\ overlapped' = (overlapped \/ \E q \in Executors \ {p} : InFlight(pass[q]))
    /\ UNCHANGED <<is_running, db_prices, db_status, index_config, finished,
                   finishedFailed, cacheVars, valVars, concVars,
                   loopVars, histVars>>

\* start(), lines 31-41
Start ==
    /\ ~is_running
    /\ is_running' = TRUE
    /\ loopPc' = "startup"
    /\ UNCHANGED <<pass, db_prices, db_status, index_config, runSeq, finished,
                   finishedFailed, overlapped, cacheVars, valVars, concVars,
                   loopVars, histVars>>

\* stop(), lines 43-58: the task is cancelled where it waits; a pass of the
\* loop in flight ends there and its session is rolled back
Stop ==
    /\ is_running
    /\ is_running' = FALSE
    /\ loopPc' = "ended"
    /\ pass' = [pass EXCEPT !["loop"] =
                  IF InFlight(@) THEN [@ EXCEPT !.pc = "cancelled", !.pending = <<>>,
                                                !.status_write = NoWrite]
                  ELSE @]
    /\ UNCHANGED <<db_prices, db_status, index_config, runSeq, finished,
                   finishedFailed, overlapped, cacheVars, valVars, concVars,
                   loopVars, histVars>>

\* line 64 returns, then lines 66-68
StartupElapsed ==
    /\ loopPc = "startup"
    /\ is_running
    /\ loopPc' = "collect"
    /\ BeginPass("loop")

\* line 72 returns, then lines 66-68
IntervalElapsed ==
    /\ loopPc = "interval"
    /\ is_running
    /\ loopPc' = "collect"
    /\ BeginPass("loop")

\* line 78 returns, then lines 66-68
BackoffElapsed ==
    /\ loopPc = "backoff"
    /\ is_running
    /\ loopPc' = "collect"
    /\ BeginPass("loop")

\* force_collection, lines 85-89
ForceCollection ==
    /\ BeginPass("forced")
    /\ UNCHANGED loopPc

\* the dictionary _collect_all_data returns (lines 182-187)
PassSummary(ps) ==
    [successful_indexes |-> ps.successful_indexes,
     failed_indexes |-> ps.failed_indexes,
     errors |-> ps.errors]

\* what force_collection has not returned yet
NoForceResult == [returned |-> FALSE, success |-> FALSE, details |-> PassSummary(IdlePass),
                  error |-> None]

\* variant: the forced call reports the success flag of the status update
ForceCollectionResultAsStatus(ps) ==
    IF ps.pc = "done"
    THEN [returned |-> TRUE, success |-> StatusSuccess(ps), details |-> PassSummary(ps),
          error |-> None]
    ELSE IF ps.pc = "raised"
    THEN [returned |-> TRUE, success |-> FALSE, details |-> PassSummary(IdlePass),
          error |-> ps.critical]
    ELSE NoForceResult

\* lines 88-108: the dictionary force_collection returns once its pass has
\* returned (line 92) or raised (line 99)
ForceCollectionResult(ps) ==
    IF ps.pc = "done"
    THEN [returned |-> TRUE, success |-> TRUE, details |-> PassSummary(ps),
          error |-> None]
    ELSE IF ps.pc = "raised"
    THEN [returned |-> TRUE, success |-> FALSE, details |-> PassSummary(IdlePass),
          error |-> ps.critical]
    ELSE NoForceResult

\* lines 122-161: the next basket of the pass of p
CollectBasket(p) ==
    /\ pass[p].pc = "basket"
    /\ LET ps == pass[p]
           index == ps.indexes[ps.idx]
       IN \E outcome \in CollectorOutcomes(index.id, index_config) :
            LET r == CalculateIndexPrice(index.id, index_config, cache,
                                         cache_timestamps, now, now, SelectFailed,
                                         outcome)
            IN /\ pass' = [pass EXCEPT ![p] = AfterBasket(ps, index, r.result)]
               /\ cache' = r.cache
               /\ cache_timestamps' = r.cache_timestamps
               /\ served' = ServedBy(index.id, r, cache_timestamps, now, now)
               /\ lastSet' = LastSetAfter(index.id, r, now)
    /\ UNCHANGED <<now, is_running, loopPc, db_prices, db_status, index_config, runSeq,
                   finished, finishedFailed, overlapped, valVars, concVars,
                   loopVars, histVars>>

\* lines 164-167: _update_querier_status in the session of the pass
StatusUpdate(p) ==
    /\ pass[p].pc = "status"
    /\ pass' = [pass EXCEPT ![p] =
                  [@ EXCEPT !.pc = "commit",
                            !.status_calls = @ + 1,
                            !.status_success = StatusSuccess(pass[p]),
                            !.status_message = StatusMessage(pass[p]),
                            !.status_write =
                                UpdateQuerierStatus(db_status, StatusSuccess(pass[p]),
                                                    StatusMessage(pass[p]))]]
    /\ UNCHANGED <<is_running, loopPc, db_prices, db_status, index_config, runSeq,
                   finished, finishedFailed, overlapped, cacheVars, valVars, concVars,
                   loopVars, histVars>>

\* where the task of the loop goes when its pass returned or raised
LoopAfter(p, pc) == IF p = "loop" THEN pc ELSE loopPc

\* variant: the commit keeps one row per basket, the latest
InsertedLatestPerIndex(committed, pending) ==
    SelectSeq(committed,
              LAMBDA row : \A k \in 1..Len(pending) : pending[k].index_id # row.index_id)
        \o pending

\* variant: a commit that stores only the first row of the session
InsertedFirstOnly(committed, pending) ==
    committed \o SubSeq(pending, 1, Min(1, Len(pending)))

\* the table after the INSERTs of the rows added at lines 140 and 161: the
\* session holds new objects only, so the rows already stored are kept
Inserted(committed, pending) == committed \o pending

\* line 170: session.commit(); lines 179-187 when it returns, line 172 when
\* it raises
Commit(p) ==
    /\ pass[p].pc = "commit"
    /\ IF CommitRaises(db_status, pass[p].status_write)
       THEN /\ pass' = [pass EXCEPT ![p] =
                          [@ EXCEPT !.pc = "crit_status", !.pending = <<>>,
                                    !.status_write = NoWrite,
                                    !.critical = "IntegrityError"]]
            /\ UNCHANGED <<db_prices, db_status, loopPc, finished, finishedFailed>>
       ELSE /\ db_prices' = Inserted(db_prices, pass[p].pending)
            /\ db_status' = Flushed(db_status, pass[p].status_write)
            /\ pass' = [pass EXCEPT ![p] = [@ EXCEPT !.pc = "done", !.pending = <<>>]]
            /\ loopPc' = LoopAfter(p, "interval")
            /\ finished' = finished + 1
            /\ finishedFailed' = finishedFailed + (IF pass[p].status_success THEN 0 ELSE 1)
    /\ UNCHANGED <<is_running, index_config, runSeq, overlapped, cacheVars, valVars, concVars,
                   loopVars, histVars>>

\* lines 173-175: the failure is recorded in a session of its own
CritStatus(p) ==
    /\ pass[p].pc = "crit_status"
    /\ pass' = [pass EXCEPT ![p] =
                  [@ EXCEPT !.pc = "crit_commit",
                            !.status_calls = @ + 1,
                            !.status_success = FALSE,
                            !.status_message = Joined(<<[index |-> None,
                                                         text |-> pass[p].critical]>>),
                            !.status_write =
                                UpdateQuerierStatus(db_status, FALSE,
                                    Joined(<<[index |-> None,
                                              text |-> pass[p].critical]>>))]]
    /\ UNCHANGED <<is_running, loopPc, db_prices, db_status, index_config, runSeq,
                   finished, finishedFailed, overlapped, cacheVars, valVars, concVars,
                   loopVars, histVars>>

\* lines 176-177: commit of that session, then the exception goes to the caller
CritCommit(p) ==
    /\ pass[p].pc = "crit_commit"
    /\ IF CommitRaises(db_status, pass[p].status_write)
       THEN UNCHANGED <<db_status, finishedFailed>>
       ELSE /\ db_status' = Flushed(db_status, pass[p].status_write)
            /\ finishedFailed' = finishedFailed + 1
    /\ pass' = [pass EXCEPT ![p] = [@ EXCEPT !.pc = "raised"]]
    /\ loopPc' = LoopAfter(p, "backoff")
    /\ finished' = finished + 1
    /\ UNCHANGED <<is_running, db_prices, index_config, runSeq, overlapped,
                   cacheVars, valVars, concVars,
                   loopVars, histVars>>

\* the cache TTL passes
Elapse ==
    /\ now + TtlTicks <= MaxTime
    /\ now' = now + TtlTicks
    /\ UNCHANGED <<cache, cache_timestamps, lastSet, served, valVars, collVars,
                   concVars, loopVars, histVars>>

\* lines 237-262: one SELECT of the status row in a session of its own that
\* adds nothing and commits nothing; the dictionary goes to the caller
GetQuerierStatus == UNCHANGED vars

\* index_service.py lines 347-359: one SELECT of the snapshots of a basket;
\* the records are bucketed in memory (lines 366-384) and the session is
\* closed without a commit
GetHistoricalPrices == UNCHANGED vars

Next ==
    \/ Start
    \/ Stop
    \/ StartupElapsed
    \/ IntervalElapsed
    \/ BackoffElapsed
    \/ ForceCollection
    \/ \E p \in Executors : CollectBasket(p)
    \/ \E p \in Executors : StatusUpdate(p)
    \/ \E p \in Executors : Commit(p)
    \/ \E p \in Executors : CritStatus(p)
    \/ \E p \in Executors : CritCommit(p)
    \/ GetQuerierStatus
    \/ GetHistoricalPrices
    \/ Elapse

Spec == Init /\ [][Next]_vars

-----------------------------------------------------------------------------
(* SpecFault: the collector of Spec against a store whose SELECT of the    *)
(* status row can fail (line 194).  The handler of line 231 swallows the   *)
(* error; what the session is worth afterwards depends on the error and    *)
(* on the back end, so each outcome is a possible one:                     *)
(*   "usable"   the transaction is intact (a statement error on SQLite);   *)
(*   "invalid"  the session must be rolled back first (the autoflush of    *)
(*              the pending snapshots failed, or the connection was lost): *)
(*              commit() raises;                                           *)
(*   "aborted"  the server has aborted the transaction (a statement error  *)
(*              on PostgreSQL): COMMIT ends it as a rollback, no error.    *)

FaultConfig == <<IndexB, IndexC>>

SessionAfterError == {"usable", "invalid", "aborted"}

InitFault ==
    /\ ValuationIdle
    /\ CacheIdle
    /\ CollectorIdleOn(FaultConfig)
    /\ ConcIdle
    /\ LoopIdle
    /\ HistIdle

\* lines 191-195 raise and line 231 logs: the session holds no status change
StatusReadFails(p, session) ==
    /\ pass[p].pc = "status"
    /\ pass' = [pass EXCEPT ![p] =
                  [@ EXCEPT !.pc = IF session = "usable" THEN "commit"
                                   ELSE IF session = "invalid" THEN "commit_invalid"
                                   ELSE "commit_aborted",
                            !.status_calls = @ + 1,
                            !.status_success = StatusSuccess(pass[p]),
                            !.status_message = StatusMessage(pass[p]),
                            !.status_write = NoWrite,
                            !.read_failed = TRUE]]
    /\ UNCHANGED <<is_running, loopPc, db_prices, db_status, index_config, runSeq,
                   finished, finishedFailed, overlapped, cacheVars, valVars, concVars,
                   loopVars, histVars>>

\* line 170 on a session that must be rolled back: commit() raises, line 172
CommitInvalid(p) ==
    /\ pass[p].pc = "commit_invalid"
    /\ pass' = [pass EXCEPT ![p] =
                  [@ EXCEPT !.pc = "crit_status", !.pending = <<>>,
                            !.critical = "PendingRollbackError"]]
    /\ UNCHANGED <<is_running, loopPc, db_prices, db_status, index_config, runSeq,
                   finished, finishedFailed, overlapped, cacheVars, valVars, concVars,
                   loopVars, histVars>>

\* line 170 on an aborted transaction: nothing is stored, lines 179-187
CommitAborted(p) ==
    /\ pass[p].pc = "commit_aborted"
    /\ pass' = [pass EXCEPT ![p] = [@ EXCEPT !.pc = "done", !.pending = <<>>]]
    /\ loopPc' = LoopAfter(p, "interval")
    /\ finished' = finished + 1
    /\ UNCHANGED <<is_running, db_prices, db_status, index_config, runSeq,
                   finishedFailed, overlapped, cacheVars, valVars, concVars,
                   loopVars, histVars>>

NextFault ==
    \/ Next
    \/ \E p \in Executors, session \in SessionAfterError : StatusReadFails(p, session)
    \/ \E p \in Executors : CommitInvalid(p)
    \/ \E p \in Executors : CommitAborted(p)

SpecFault == InitFault /\ [][NextFault]_vars

-----------------------------------------------------------------------------
(* Naive datetimes as the history query uses them: comparison, replace(),  *)
(* weekday(), subtraction of whole days, and the days of a difference.     *)

Fields(t) == <<t.year, t.month, t.day, t.hour, t.minute, t.second, t.microsecond>>

RECURSIVE LexLess(_, _, _)
LexLess(a, b, i) ==
    IF i > Len(a) THEN FALSE
    ELSE IF a[i] # b[i] THEN a[i] < b[i]
         ELSE LexLess(a, b, i + 1)

\* a < b and a <= b of two datetimes
DtLess(a, b) == LexLess(Fields(a), Fields(b), 1)

DtLeq(a, b) == a = b \/ DtLess(a, b)

IsLeap(y) == y % 4 = 0 /\ (y % 100 # 0 \/ y % 400 = 0)

DaysInMonth(y, m) ==
    IF m = 2 THEN (IF IsLeap(y) THEN 29 ELSE 28)
    ELSE IF m \in {4, 6, 9, 11} THEN 30 ELSE 31

\* t - timedelta(days=1)
PrevDay(t) ==
    IF t.day > 1 THEN [t EXCEPT !.day = @ - 1]
    ELSE IF t.month > 1
         THEN [t EXCEPT !.month = @ - 1, !.day = DaysInMonth(t.year, t.month - 1)]
         ELSE [t EXCEPT !.year = @ - 1, !.month = 12, !.day = 31]

RECURSIVE MinusDays(_, _)
\* t - timedelta(days=days), days >= 0
MinusDays(t, days) == IF days = 0 THEN t ELSE MinusDays(PrevDay(t), days - 1)

DaysBeforeYear(y) == (y - 1) * 365 + (y - 1) \div 4 - (y - 1) \div 100 + (y - 1) \div 400

RECURSIVE DaysBeforeMonth(_, _)
DaysBeforeMonth(y, m) ==
    IF m = 1 THEN 0 ELSE DaysBeforeMonth(y, m - 1) + DaysInMonth(y, m - 1)

\* date.toordinal(): 1 for 0001-01-01
ToOrdinal(t) == DaysBeforeYear(t.year) + DaysBeforeMonth(t.year, t.month) + t.day

\* date.weekday(): 0 for Monday
Weekday(t) == (ToOrdinal(t) + 6) % 7

TimeOfDay(t) == <<t.hour, t.minute, t.second, t.microsecond>>

\* (a - b).days: the whole days of the difference, rounded down
TimedeltaDays(a, b) ==
    ToOrdinal(a) - ToOrdinal(b) - (IF LexLess(TimeOfDay(a), TimeOfDay(b), 1) THEN 1 ELSE 0)

\* replace(hour=0, minute=0, second=0, microsecond=0)
Midnight(t) == [t EXCEPT !.hour = 0, !.minute = 0, !.second = 0, !.microsecond = 0]

IntervalType == {"1h", "4h", "1d", "1w", "1M"}

\* variant: the week starts on the Sunday
BoundarySundayWeek(timestamp, interval) ==
    IF interval = "1h"
    THEN [timestamp EXCEPT !.minute = 0, !.second = 0, !.microsecond = 0]
    ELSE IF interval = "4h"
    THEN [timestamp EXCEPT !.hour = (timestamp.hour \div 4) * 4,
                           !.minute = 0, !.second = 0, !.microsecond = 0]
    ELSE IF interval = "1d"
    THEN Midnight(timestamp)
    ELSE IF interval = "1w"
    THEN MinusDays(Midnight(timestamp), (Weekday(timestamp) + 1) % 7)
    ELSE IF interval = "1M"
    THEN [Midnight(timestamp) EXCEPT !.day = 1]
    ELSE timestamp

\* lines 406-421: the timestamp rounded down to the boundary of its interval
Boundary(timestamp, interval) ==
    IF interval = "1h"
    THEN [timestamp EXCEPT !.minute = 0, !.second = 0, !.microsecond = 0]
    ELSE IF interval = "4h"
    THEN [timestamp EXCEPT !.hour = (timestamp.hour \div 4) * 4,
                           !.minute = 0, !.second = 0, !.microsecond = 0]
    ELSE IF interval = "1d"
    THEN Midnight(timestamp)
    ELSE IF interval = "1w"
    THEN MinusDays(Midnight(timestamp), Weekday(timestamp))
    ELSE IF interval = "1M"
    THEN [Midnight(timestamp) EXCEPT !.day = 1]
    ELSE timestamp

\* grouped[boundary].append(record) on a dictionary in insertion order
AppendToGroup(grouped, boundary, record) ==
    IF \E g \in 1..Len(grouped) : grouped[g].boundary = boundary
    THEN [g \in 1..Len(grouped) |->
            IF grouped[g].boundary = boundary
            THEN [grouped[g] EXCEPT !.records = Append(@, record)]
            ELSE grouped[g]]
    ELSE Append(grouped, [boundary |-> boundary, records |-> <<record>>])

RECURSIVE GroupFrom(_, _, _, _)
GroupFrom(records, interval, i, grouped) ==
    IF i > Len(records) THEN grouped
    ELSE GroupFrom(records, interval, i + 1,
                   AppendToGroup(grouped, Boundary(records[i].timestamp, interval),
                                 records[i]))

\* _group_data_by_interval, lines 386-423
GroupDataByInterval(records, interval) == GroupFrom(records, interval, 1, <<>>)

\* variant: a start_date after the boundary does not exclude the bucket
BoundaryInWindowOpenStart(boundary, start_date, end_date) == DtLeq(boundary, end_date)

\* line 372: start_date <= timestamp <= end_date
BoundaryInWindow(boundary, start_date, end_date) ==
    DtLeq(start_date, boundary) /\ DtLeq(boundary, end_date)

\* variant: the first record of the interval
RepresentativeFirst(records) == records[1]

\* line 374: records[-1]
Representative(records) == records[Len(records)]

\* lines 376-380: HistoricalPrice of a bucket
HistoricalPrice(boundary, record) ==
    [timestamp |-> boundary, price |-> record.price, volume |-> record.volume_24h]

RECURSIVE PointsFrom(_, _, _, _)
\* lines 371-381: the loop over grouped_data.items()
PointsFrom(grouped, start_date, end_date, g) ==
    IF g > Len(grouped) THEN <<>>
    ELSE (IF BoundaryInWindow(grouped[g].boundary, start_date, end_date)
          THEN <<HistoricalPrice(grouped[g].boundary, Representative(grouped[g].records))>>
          ELSE <<>>)
         \o PointsFrom(grouped, start_date, end_date, g + 1)

RECURSIVE InsertPoint(_, _)
\* the place of x in a sorted list, after the points that are not later
InsertPoint(sorted, x) ==
    IF sorted = <<>> THEN <<x>>
    ELSE IF DtLess(x.timestamp, Head(sorted).timestamp) THEN <<x>> \o sorted
         ELSE <<Head(sorted)>> \o InsertPoint(Tail(sorted), x)

\* variant: newest point first
RECURSIVE SortedNewestFirst(_)
SortedNewestFirst(points) ==
    IF points = <<>> THEN <<>>
    ELSE LET rest == SortedNewestFirst(Tail(points))
             x == Head(points)
         IN SelectSeq(rest, LAMBDA y : DtLess(x.timestamp, y.timestamp))
              \o <<x>>
              \o SelectSeq(rest, LAMBDA y : ~DtLess(x.timestamp, y.timestamp))

RECURSIVE SortedByTimestamp(_)
\* line 384: sorted(historical_prices, key=lambda x: x.timestamp), stable
SortedByTimestamp(points) ==
    IF points = <<>> THEN <<>>
    ELSE InsertPoint(SortedByTimestamp(SubSeq(points, 1, Len(points) - 1)),
                     points[Len(points)])

\* lines 361-384: the answer computed from the records the SELECT returned
Resample(db_records, start_date, end_date, interval) ==
    IF db_records = <<>> THEN <<>>
    ELSE SortedByTimestamp(PointsFrom(GroupDataByInterval(db_records, interval),
                                      start_date, end_date, 1))

\* variant: the SELECT does not look at calculation_successful
EligibleAnyOutcome(row, index_id, start_date, end_date) ==
    /\ row.index_id = index_id
    /\ DtLeq(start_date, row.timestamp)
    /\ DtLeq(row.timestamp, end_date)

\* lines 349-356: the WHERE clause of the SELECT
Eligible(row, index_id, start_date, end_date) ==
    /\ row.index_id = index_id
    /\ DtLeq(start_date, row.timestamp)
    /\ DtLeq(row.timestamp, end_date)
    /\ row.calculation_successful = TRUE

\* the orders in which the SELECT can return the rows it matches: ORDER BY
\* timestamp, rows of equal timestamp in an order the store chooses
QueryResults(table, index_id, start_date, end_date) ==
    LET rows == SelectSeq(table, LAMBDA row : Eligible(row, index_id, start_date, end_date))
        n == Len(rows)
        orders == {f \in [1..n -> 1..n] :
                     /\ \A i, j \in 1..n : i # j => f[i] # f[j]
                     /\ \A i \in 1..n - 1 :
                           DtLeq(rows[f[i]].timestamp, rows[f[i + 1]].timestamp)}
    IN {[i \in 1..n |-> rows[f[i]]] : f \in orders}

\* variant: equal dates are a valid range
RangeInvalidStrict(start_date, end_date) == DtLess(end_date, start_date)

\* indexes.py line 142: start_date >= end_date
RangeInvalid(start_date, end_date) == DtLeq(end_date, start_date)

\* indexes.py line 148
max_days == 365

\* indexes.py line 149: (end_date - start_date).days > max_days
RangeTooLarge(start_date, end_date) == TimedeltaDays(end_date, start_date) > max_days

-----------------------------------------------------------------------------
(* SpecHist: one historical query, GET /{index_id}/history, against a      *)
(* store the collector has filled.  The rows are kept in timestamp order:  *)
(* the SELECT orders them itself, so the order of the commits shows only   *)
(* between rows of equal timestamp, where QueryResults allows either.      *)

MaxRecords == 3

\* the instants of the sample passes: Monday 2024-01-29, Wednesday
\* 2024-01-31, Thursday 2024-02-01, Wednesday 2025-01-01
PassInstants ==
    {DateTime(2024, 1, 29, 0, 0, 0, 0),
     DateTime(2024, 1, 31, 23, 10, 5, 7),
     DateTime(2024, 1, 31, 23, 50, 0, 0),
     DateTime(2024, 2, 1, 0, 0, 0, 0),
     DateTime(2024, 2, 1, 5, 30, 0, 0),
     DateTime(2025, 1, 1, 3, 0, 0, 0)}

\* the clock when the request arrives
UtcNow == DateTime(2025, 1, 1, 12, 0, 0, 0)

\* the start_date and end_date of the sample requests, NoDate when omitted:
\* every range between four instants, an empty and a reversed range, a
\* range of 365 days and one hour, one of 367 days, and the ranges with a
\* default
QueryRanges ==
    LET q1 == DateTime(2024, 1, 29, 0, 0, 0, 0)
        q2 == DateTime(2024, 1, 31, 12, 0, 0, 0)
        q3 == DateTime(2024, 2, 1, 0, 0, 0, 0)
    IN {<<q1, q2>>, <<q1, q3>>, <<q1, UtcNow>>, <<q2, q3>>, <<q2, UtcNow>>,
        <<q3, UtcNow>>, <<q3, q3>>, <<q3, q2>>,
        <<DateTime(2024, 1, 2, 11, 0, 0, 0), UtcNow>>,
        <<DateTime(2023, 12, 31, 0, 0, 0, 0), UtcNow>>,
        <<NoDate, NoDate>>, <<NoDate, q3>>, <<UtcNow, NoDate>>}

HistConfig == CollectorConfig

HistIds == {"B", "nonexistent"}

\* what the k-th stored row holds: the snapshot of a pass that valued
\* basket B, of one whose valuation of B failed, or a snapshot of basket A
RowKinds == {"valued", "failed", "other"}

StoredRow(k, timestamp, kind) ==
    LET price_data == [price |-> Frac(k, 1), market_cap |-> Frac(10 * k, 1),
                       price_change_24h |-> Zero, price_change_7d |-> Zero]
    IN IF kind = "valued" THEN SuccessRecord(IndexB, timestamp, price_data, k)
       ELSE IF kind = "failed"
       THEN FailedRecord(IndexB, timestamp, "No price data available for index", k)
       ELSE SuccessRecord(IndexA, timestamp, price_data, k)

Stores ==
    UNION {{[k \in 1..n |-> StoredRow(k, ts[k], kinds[k])] :
              ts \in {t \in [1..n -> PassInstants] :
                        \A k \in 1..n - 1 : DtLeq(t[k], t[k + 1])},
              kinds \in [1..n -> RowKinds]} : n \in 0..MaxRecords}

InitHist ==
    /\ ValuationIdle
    /\ CacheIdle
    /\ is_running = FALSE
    /\ loopPc = "none"
    /\ pass = [p \in Executors |-> IdlePass]
    /\ db_prices \in Stores
    /\ db_status = NoRow
    /\ index_config = HistConfig
    /\ runSeq = 0
    /\ finished = 0
    /\ finishedFailed = 0
    /\ overlapped = FALSE
    /\ ConcIdle
    /\ LoopIdle
    /\ HistIdle

histFrame == <<valVars, cacheVars, collVars, concVars, loopVars, sel, fund>>

\* the request arrives with its path and query parameters
HistRequest(index_id, range, interval) ==
    /\ hist.pc = "none"
    /\ hist' = [hist EXCEPT !.pc = "validate", !.index_id = index_id,
                            !.start_date = range[1], !.end_date = range[2],
                            !.interval = interval]
    /\ UNCHANGED histFrame

\* indexes.py lines 135-154: the defaults and the two checks of the range
HistValidate ==
    /\ hist.pc = "validate"
    /\ LET end_date == IF hist.end_date = NoDate THEN UtcNow ELSE hist.end_date
           start_date == IF hist.start_date = NoDate THEN MinusDays(end_date, 30)
                         ELSE hist.start_date
       IN hist' = [hist EXCEPT
                     !.start_date = start_date,
                     !.end_date = end_date,
                     !.pc = IF RangeInvalid(start_date, end_date)
                               \/ RangeTooLarge(start_date, end_date)
                            THEN "responded" ELSE "lookup",
                     !.status_code = IF RangeInvalid(start_date, end_date)
                                        \/ RangeTooLarge(start_date, end_date)
                                     THEN 400 ELSE 0]
    /\ UNCHANGED histFrame

\* index_service.py lines 341-343; the exception becomes the 404 of
\* indexes.py lines 169-173
HistLookup ==
    /\ hist.pc = "lookup"
    /\ hist' = IF GetIndexById(index_config, hist.index_id) = NoIndex
               THEN [hist EXCEPT !.pc = "responded", !.status_code = 404,
                                 !.looked_up = TRUE]
               ELSE [hist EXCEPT !.pc = "query", !.looked_up = TRUE]
    /\ UNCHANGED histFrame

\* index_service.py lines 347-359: the SELECT
HistQuery ==
    /\ hist.pc = "query"
    /\ \E db_records \in QueryResults(db_prices, hist.index_id, hist.start_date,
                                      hist.end_date) :
          hist' = [hist EXCEPT !.pc = "resample", !.queried = TRUE,
                               !.db_records = db_records]
    /\ UNCHANGED histFrame

\* index_service.py lines 361-384 and the response of indexes.py lines 160-166
HistResample ==
    /\ hist.pc = "resample"
    /\ hist' = [hist EXCEPT !.pc = "responded", !.status_code = 200,
                            !.response = Resample(hist.db_records, hist.start_date,
                                                  hist.end_date, hist.interval)]
    /\ UNCHANGED histFrame

NextHist ==
    \/ \E index_id \in HistIds, range \in QueryRanges, interval \in IntervalType :
          HistRequest(index_id, range, interval)
    \/ HistValidate
    \/ HistLookup
    \/ HistQuery
    \/ HistResample

SpecHist == InitHist /\ [][NextHist]_vars

-----------------------------------------------------------------------------
(* SpecSel: MuesliswapService.select_tokens_dynamically as a function of   *)
(* the criteria and of the token list the market returns.                  *)

\* the most entries the market lists
MaxCandidates == 4

\* MuesliswapTokenListItem, the fields the selection reads; symbol "" for a
\* symbol that is None or empty
Candidate(symbol, base, quote, marketCap, categories) ==
    [symbol |-> symbol, volume |-> [base |-> base, quote |-> quote],
     marketCap |-> marketCap, categories |-> categories]

CandidatePool ==
    {Candidate("X", 150, 50, 30, {"defi"}),
     Candidate("Y", 100, 100, 10, {}),
     Candidate("Z", 30, 20, 20, {"defi"}),
     Candidate("", 100, 100, 40, {"defi"}),
     Candidate("W", 200, 0, 0, {"gaming"}),
     Candidate("V", 0, 300, 0, {"defi"})}

\* the token lists of the market, best rank first
Markets ==
    UNION {{m \in [1..n -> CandidatePool] :
              \A i, j \in 1..n : i # j => m[i] # m[j]} : n \in 0..MaxCandidates}

\* the criteria of the sample indexes; min_market_cap 0 when it is None
CriteriaSet ==
    [selection_method : {"market_cap"}, limit : {1, 2}, min_volume_ada : {100},
     min_market_cap : {0, 20}, exclude_tokens : {{}, {"X"}},
     include_categories : {{}, {"defi"}},
     weighting_method : {"equal", "market_cap", "volume"}]

\* line 204: fetch_limit = min(criteria.limit * 3, 100)
FetchLimit(criteria) == Min(criteria.limit * 3, 100)

\* what get_token_list(limit=fetch_limit) returns of the market
FetchedItems(market, criteria) == SubSeq(market, 1, Min(FetchLimit(criteria), Len(market)))

\* lines 217-237: the item is not skipped
PassesFilters(item, criteria) ==
    /\ item.symbol # ""
    /\ item.symbol \notin criteria.exclude_tokens
    /\ ~(item.volume.base + item.volume.quote < criteria.min_volume_ada)
    /\ ~(criteria.min_market_cap # 0 /\ item.marketCap < criteria.min_market_cap)
    /\ ~(criteria.include_categories # {}
           /\ ~\E cat \in criteria.include_categories : cat \in item.categories)

\* lines 240-250: the TokenInfo of an item, weight 0.0, with its _market_cap
TokenOf(item) == [name |-> item.symbol, weight |-> Zero, market_cap |-> item.marketCap]

RECURSIVE FilteredFrom(_, _, _)
\* lines 212-250: the loop over token_response.items
FilteredFrom(items, criteria, i) ==
    IF i > Len(items) THEN <<>>
    ELSE (IF PassesFilters(items[i], criteria) THEN <<TokenOf(items[i])>> ELSE <<>>)
         \o FilteredFrom(items, criteria, i + 1)

\* variant: the list is cut to the limit before it is filtered
LimitThenFilter(items, criteria) ==
    FilteredFrom(SubSeq(items, 1, Min(criteria.limit, Len(items))), criteria, 1)

\* lines 212-253: filtered_tokens[:criteria.limit]
FilterThenLimit(items, criteria) ==
    LET filtered_tokens == FilteredFrom(items, criteria, 1)
    IN SubSeq(filtered_tokens, 1, Min(criteria.limit, Len(filtered_tokens)))

RECURSIVE TotalMarketCap(_, _)
\* line 263: sum(getattr(token, '_market_cap', 0) for token in selected_tokens)
TotalMarketCap(tokens, i) ==
    IF i > Len(tokens) THEN 0 ELSE tokens[i].market_cap + TotalMarketCap(tokens, i + 1)

\* lines 256-269: the weights by the weighting method; a method that is
\* neither "equal" nor "market_cap" takes no branch
Weighted(selected_tokens, criteria) ==
    IF criteria.weighting_method = "equal"
    THEN [i \in 1..Len(selected_tokens) |->
            [selected_tokens[i] EXCEPT !.weight = Frac(1, Len(selected_tokens))]]
    ELSE IF criteria.weighting_method = "market_cap"
    THEN LET total_market_cap == TotalMarketCap(selected_tokens, 1)
         IN IF total_market_cap > 0
            THEN [i \in 1..Len(selected_tokens) |->
                    [selected_tokens[i] EXCEPT
                        !.weight = Frac(selected_tokens[i].market_cap, total_market_cap)]]
            ELSE selected_tokens
    ELSE selected_tokens

\* lines 199-277: the list returned when get_token_list returned the items
SelectTokensDynamically(criteria, items) ==
    Weighted(FilterThenLimit(items, criteria), criteria)

InitSel ==
    /\ ValuationIdle
    /\ CacheIdle
    /\ CollectorIdle
    /\ ConcIdle
    /\ LoopIdle
    /\ HistIdle

selFrame == <<valVars, cacheVars, collVars, concVars, loopVars, hist, fund>>

\* select_tokens_dynamically(criteria) is called; get_token_list will
\* return the head of the market, or raise
SelectCall(criteria, market, fetch_ok) ==
    /\ sel.pc = "none"
    /\ sel' = [sel EXCEPT !.pc = "called", !.criteria = criteria, !.market = market,
                          !.fetch_ok = fetch_ok, !.calls = @ + 1]
    /\ UNCHANGED selFrame

\* lines 199-277: the call returns its list, or raises what the fetch raised
SelectReturn ==
    /\ sel.pc = "called"
    /\ \E items \in {FetchedItems(sel.market, sel.criteria)} :
       \E tokens \in {SelectTokensDynamically(sel.criteria, items)} :
          sel' = IF sel.fetch_ok
                 THEN [sel EXCEPT !.pc = "returned", !.tokens = tokens]
                 ELSE [sel EXCEPT !.pc = "returned", !.raised = TRUE]
    /\ UNCHANGED selFrame

NextSel ==
    \/ /\ sel.pc = "none"
       /\ \E criteria \in CriteriaSet, market \in Markets, fetch_ok \in BOOLEAN :
             SelectCall(criteria, market, fetch_ok)
    \/ SelectReturn

SpecSel == InitSel /\ [][NextSel]_vars

-----------------------------------------------------------------------------
(* SpecDyn: the scheduled passes of the collector over a dynamic and a     *)
(* static index; the members of the dynamic index are selected from the    *)
(* market at the time of the valuation.  sel keeps the last call of the    *)
(* selection.  The basket list is readable and the passes do not overlap,  *)
(* so the critical path of a pass is not taken.                            *)

DynConfig == <<IndexF, IndexB>>

\* the dynamic_criteria of index F
DynCriteria ==
    [selection_method |-> "market_cap", limit |-> 1, min_volume_ada |-> 100,
     min_market_cap |-> 0, exclude_tokens |-> {}, include_categories |-> {"defi"},
     weighting_method |-> "equal"]

\* the token lists the market returns during the passes: none, entries that
\* all fail a filter, and lists with a qualifying entry
DynMarkets ==
    {<<>>,
     <<Candidate("Z", 30, 20, 20, {"defi"}), Candidate("W", 200, 0, 0, {"gaming"})>>,
     <<Candidate("", 100, 100, 40, {"defi"})>>,
     <<Candidate("Z", 30, 20, 20, {"defi"}), Candidate("X", 150, 50, 30, {"defi"})>>}

\* the selected TokenInfo list as the valuation reads it: name and weight,
\* the weight in units of 1 / WeightDen
AsIndexTokens(tokens) ==
    [i \in 1..Len(tokens) |->
        [name |-> tokens[i].name,
         weight |-> (tokens[i].weight[1] * WeightDen) \div tokens[i].weight[2]]]

\* what the call of select_tokens_dynamically of line 166 does on a market
SelectionOn(criteria, market, fetch_ok) ==
    IF fetch_ok
    THEN Selected(AsIndexTokens(SelectTokensDynamically(criteria,
                                    FetchedItems(market, criteria))))
    ELSE SelectFailed

\* get_index_tokens reaches line 166: no price and no member list in cache
SelectionCalled(index, c, timestamps, t) ==
    /\ index.is_dynamic
    /\ GetFromCache(c, timestamps, PriceKey(index.id), t) = NoData
    /\ TokensFromCache(c, timestamps, DynamicKey(index.id), t) = <<>>

InitDyn ==
    /\ ValuationIdle
    /\ CacheIdle
    /\ CollectorIdleOn(DynConfig)
    /\ ConcIdle
    /\ LoopIdle
    /\ HistIdle

\* historical_querier.py lines 122-161 for the next basket of the pass of p,
\* with the selection of index_service.py lines 158-178 made on the market
DynCollectBasket(p) ==
    /\ pass[p].pc = "basket"
    /\ LET ps == pass[p]
           index == ps.indexes[ps.idx]
           called == SelectionCalled(index, cache, cache_timestamps, now)
       IN \E market \in (IF called THEN DynMarkets ELSE {<<>>}),
             fetch_ok \in (IF called THEN BOOLEAN ELSE {FALSE}) :
          \E selection \in {SelectionOn(DynCriteria, market, fetch_ok)} :
          \E outcome \in {o \in MarketOutcomes(TokensUsed(index.id, index_config, cache,
                                                          cache_timestamps, now, now,
                                                          selection)) :
                              \/ \A i \in DOMAIN o : o[i] = FetchFailed
                              \/ \A i \in DOMAIN o : o[i] # FetchFailed} :
            LET r == CalculateIndexPrice(index.id, index_config, cache,
                                         cache_timestamps, now, now, selection, outcome)
            IN /\ pass' = [pass EXCEPT ![p] = AfterBasket(ps, index, r.result)]
               /\ cache' = r.cache
               /\ cache_timestamps' = r.cache_timestamps
               /\ served' = ServedBy(index.id, r, cache_timestamps, now, now)
               /\ lastSet' = LastSetAfter(index.id, r, now)
               /\ sel' = IF called
                         THEN [pc |-> "returned", criteria |-> DynCriteria,
                               market |-> market, fetch_ok |-> fetch_ok,
                               raised |-> ~fetch_ok,
                               tokens |-> IF fetch_ok
                                          THEN SelectTokensDynamically(DynCriteria,
                                                   FetchedItems(market, DynCriteria))
                                          ELSE <<>>,
                               calls |-> sel.calls + 1]
                         ELSE sel
    /\ UNCHANGED <<now, is_running, loopPc, db_prices, db_status, index_config, runSeq,
                   finished, finishedFailed, overlapped, valVars, concVars,
                   loopVars, hist, fund>>

NextDyn ==
    \/ Start
    \/ Stop
    \/ StartupElapsed
    \/ IntervalElapsed
    \/ \E p \in Executors : DynCollectBasket(p)
    \/ \E p \in Executors : StatusUpdate(p)
    \/ \E p \in Executors : Commit(p)
    \/ Elapse

SpecDyn == InitDyn /\ [][NextDyn]_vars

-----------------------------------------------------------------------------
(* SpecTtl: the passes of a started collector over a basket with a member  *)
(* and a basket without, on a clock that advances by half the TTL, so that *)
(* a pass can value a basket whose cache entry is new, half way to its     *)
(* expiry, or expired.                                                     *)

\* time passes between two steps of the collector
ElapseHalfTtl ==
    /\ now + TtlTicks \div 2 <= MaxTime
    /\ now' = now + TtlTicks \div 2
    /\ UNCHANGED <<cache, cache_timestamps, lastSet, served, valVars, collVars,
                   concVars, loopVars, histVars>>

InitTtl ==
    /\ ValuationIdle
    /\ CacheIdle
    /\ CollectorIdleOn(FaultConfig)
    /\ ConcIdle
    /\ LoopIdle
    /\ HistIdle

NextTtl ==
    \/ Start
    \/ StartupElapsed
    \/ IntervalElapsed
    \/ BackoffElapsed
    \/ ForceCollection
    \/ \E p \in Executors : CollectBasket(p)
    \/ \E p \in Executors : StatusUpdate(p)
    \/ \E p \in Executors : Commit(p)
    \/ \E p \in Executors : CritStatus(p)
    \/ \E p \in Executors : CritCommit(p)
    \/ ElapseHalfTtl

SpecTtl == InitTtl /\ [][NextTtl]_vars

-----------------------------------------------------------------------------
(* SpecFund: LinkageFund.to_index_metadata on funds whose token ids are    *)
(* character sequences.  fund keeps the last conversion.                   *)

MaxFundTokens == 2

\* the length of a policy id in a token id
policy_id_chars == 56

PolicyId == [i \in 1..policy_id_chars |-> "a"]

\* token ids: the id of the repository's tests, a bare policy id, and a
\* policy id followed by a hex name, a name that is not hex, a byte that is
\* not UTF-8
TokenIds ==
    {<<"t", "o", "k", "e", "n", "1">>,
     PolicyId,
     PolicyId \o <<"5", "8">>,
     PolicyId \o <<"z", "z">>,
     PolicyId \o <<"0", "0", "5", "9", "f", "f">>}

FundFactors == {-1, 0, 1, 3}

SeqsUpTo(S, n) == UNION {[1..k -> S] : k \in 0..n}

HexDigits == {"0", "1", "2", "3", "4", "5", "6", "7", "8", "9",
              "a", "b", "c", "d", "e", "f"}

\* bytes.fromhex accepts the string
IsHex(chars) ==
    /\ Len(chars) % 2 = 0
    /\ \A i \in 1..Len(chars) : chars[i] \in HexDigits

\* the text of one byte under decode('utf-8', errors='ignore'), for the
\* bytes of TokenIds; NUL is written "NUL", an undecodable byte gives <<>>
ByteText(hi, lo) ==
    CASE hi = "5" /\ lo = "8" -> <<"X">>
      [] hi = "5" /\ lo = "9" -> <<"Y">>
      [] hi = "0" /\ lo = "0" -> <<"NUL">>
      [] hi = "f" /\ lo = "f" -> <<>>

RECURSIVE Decoded(_, _)
Decoded(chars, i) ==
    IF i > Len(chars) THEN <<>>
    ELSE ByteText(chars[i], chars[i + 1]) \o Decoded(chars, i + 2)

RECURSIVE StripNul(_)
StripNul(text) ==
    IF text = <<>> THEN text
    ELSE IF Head(text) = "NUL" THEN StripNul(Tail(text))
    ELSE IF text[Len(text)] = "NUL" THEN StripNul(SubSeq(text, 1, Len(text) - 1))
    ELSE text

\* lines 58-61: the symbol decoded from the hex name, or its first 8
\* characters, or UNKNOWN
TokenSymbol(token_name_hex) ==
    IF IsHex(token_name_hex) THEN StripNul(Decoded(token_name_hex, 1))
    ELSE IF token_name_hex # <<>>
         THEN SubSeq(token_name_hex, 1, Min(8, Len(token_name_hex)))
         ELSE <<"U", "N", "K", "N", "O", "W", "N">>

RECURSIVE SumFactors(_, _)
SumFactors(factors, i) ==
    IF i > Len(factors) THEN 0 ELSE factors[i] + SumFactors(factors, i + 1)

\* line 46
TotalFactor(factors) == IF factors # <<>> THEN SumFactors(factors, 1) ELSE 1

\* line 47
FundWeights(factors) ==
    IF TotalFactor(factors) > 0
    THEN [i \in 1..Len(factors) |-> Frac(factors[i], TotalFactor(factors))]
    ELSE <<>>

\* TokenInfo(...) of lines 63-69; the field weight must lie in [0, 1]
WeightValid(weight) == weight[1] >= 0 /\ weight[1] <= weight[2]

FundMember(token_id, weight) ==
    [name |-> TokenSymbol(SubSeq(token_id, policy_id_chars + 1, Len(token_id))),
     policy_id |-> SubSeq(token_id, 1, policy_id_chars),
     token_name |-> SubSeq(token_id, policy_id_chars + 1, Len(token_id)),
     weight |-> weight]

\* line 53
HasPolicyId(token_id) == Len(token_id) >= policy_id_chars

\* lines 51-70: the loop over zip(tokens, weights) from pair i on
RECURSIVE MembersFrom(_, _, _)
MembersFrom(tokens, weights, i) ==
    IF i > Min(Len(tokens), Len(weights)) THEN <<>>
    ELSE IF HasPolicyId(tokens[i])
         THEN <<FundMember(tokens[i], weights[i])>> \o MembersFrom(tokens, weights, i + 1)
         ELSE MembersFrom(tokens, weights, i + 1)

\* lines 43-83: the members of the basket, or the validation error of a
\* member whose weight is outside [0, 1]
ToIndexMetadata(tokens, factors) ==
    LET members == MembersFrom(tokens, FundWeights(factors), 1)
    IN IF \A k \in 1..Len(members) : WeightValid(members[k].weight)
       THEN [raised |-> FALSE, members |-> members]
       ELSE [raised |-> TRUE, members |-> <<>>]

InitFund ==
    /\ ValuationIdle
    /\ CacheIdle
    /\ CollectorIdle
    /\ ConcIdle
    /\ LoopIdle
    /\ HistIdle

fundFrame == <<valVars, cacheVars, collVars, concVars, loopVars, hist, sel>>

\* LinkageFund(...): a fund is built
FundCreate(tokens, factors) ==
    /\ fund.pc \in {"none", "returned"}
    /\ fund' = [NoConversion EXCEPT !.pc = "created", !.tokens = tokens,
                                    !.factors = factors]
    /\ UNCHANGED fundFrame

\* fund.to_index_metadata()
FundConvert ==
    /\ fund.pc = "created"
    /\ \E r \in {ToIndexMetadata(fund.tokens, fund.factors)} :
          fund' = [fund EXCEPT !.pc = "returned", !.raised = r.raised,
                               !.members = r.members]
    /\ UNCHANGED fundFrame

NextFund ==
    \/ /\ fund.pc \in {"none", "returned"}
       /\ \E tokens \in SeqsUpTo(TokenIds, MaxFundTokens),
             factors \in SeqsUpTo(FundFactors, MaxFundTokens) :
             FundCreate(tokens, factors)
    \/ FundConvert

SpecFund == InitFund /\ [][NextFund]_vars

-----------------------------------------------------------------------------
(* SpecLoop: the life of the tasks of _collection_loop under calls of      *)
(* start, stop and force_collection.  A pass is one state of the task      *)
(* here (Spec has its steps); a sleep is counted in ticks of               *)
(* LoopTickSeconds.  start and stop are called one after the other, as     *)
(* the lifespan handler of main.py does (lines 45-46 and 67-68), so no     *)
(* start is made while a stop awaits its task; force_collection comes      *)
(* from an endpoint and runs at any time.  CancelledError is not an        *)
(* Exception (Python 3.8 and later), so only lines 74 and 80 catch it.     *)

\* the ticks after which a sleep of so many seconds returns: the first tick
\* at which the seconds have passed
SleepTicks(seconds) == (seconds + LoopTickSeconds - 1) \div LoopTickSeconds

\* asyncio.sleep(interval_seconds), in ticks
IntervalSleep == SleepTicks(querier_interval_minutes * 60)

\* asyncio.sleep(60), in ticks
BackoffSleep == SleepTicks(backoff_seconds)

\* variant: the handler sleeps the interval
SleepAfterAlwaysInterval(raised) == IntervalSleep

\* the sleep that follows a pass: line 72 when _collect_all_data returned,
\* line 78 when it raised
SleepAfter(raised) == IF raised THEN BackoffSleep ELSE IntervalSleep

\* variant: the delay is slept as milliseconds
FirstSleepMillis(delay_seconds) == SleepTicks(delay_seconds \div 1000)

\* line 64: asyncio.sleep(self.settings.querier_startup_delay_seconds), in
\* ticks
FirstSleep(delay_seconds) == SleepTicks(delay_seconds)

\* variant: start() never finds the collector running
NeverRunning(running) == FALSE

\* line 33: if self.is_running
AlreadyRunning(running) == running

\* variant: a cancellation inside a pass is handled as an error of the pass
AfterCancelAsError(pc) == IF pc = "collect" THEN "backoff" ELSE "ended"

\* where CancelledError takes the task: out of the loop, by the break of
\* line 75 or the handler of line 80
AfterCancel(pc) == "ended"

\* variant: force_collection marks the collector as running
RunningAfterForceSet(running) == TRUE

\* lines 83-108 assign neither is_running nor _task
RunningAfterForce(running) == running

Sleeping == {"startup", "interval", "backoff"}

\* asyncio.create_task(self._collection_loop()): the task at its first await
NewTask == [pc |-> "startup", sleep_for |-> FirstSleep(querier_startup_delay_seconds),
            slept |-> 0,
            cancel |-> FALSE, stopped_in |-> "none", ran_pass |-> FALSE]

\* ghost: a step of the API, marked by the flip
ApiCall(op) == [op |-> op, flip |-> ~last_call.flip]

InitLoop ==
    /\ ValuationIdle
    /\ CacheIdle
    /\ CollectorIdle
    /\ ConcIdle
    /\ LoopIdle
    /\ HistIdle

\* start(), lines 31-41
StartCall ==
    /\ stopper.pc = "idle"
    /\ IF AlreadyRunning(is_running)
       THEN /\ last_call' = ApiCall("start_noop")
            /\ UNCHANGED <<is_running, tasks, task_ref>>
       ELSE /\ Len(tasks) < MaxTasks
            /\ is_running' = TRUE
            /\ tasks' = Append(tasks, NewTask)
            /\ task_ref' = Len(tasks) + 1
            /\ last_call' = ApiCall("start")
    /\ UNCHANGED <<stopper, forcedPc, passVars, valVars, cacheVars, concVars, histVars>>

\* stop() up to its await, lines 43-54
StopCall ==
    /\ stopper.pc = "idle"
    /\ IF ~is_running
       THEN /\ last_call' = ApiCall("stop_noop")
            /\ UNCHANGED <<is_running, tasks, stopper>>
       ELSE /\ is_running' = FALSE
            /\ tasks' = IF task_ref # 0 /\ tasks[task_ref].pc # "ended"
                         THEN [tasks EXCEPT ![task_ref] =
                                 [@ EXCEPT !.cancel = TRUE,
                                            !.stopped_in = tasks[task_ref].pc]]
                         ELSE tasks
            /\ stopper' = [pc |-> "waiting", task |-> task_ref]
            /\ last_call' = ApiCall("stop")
    /\ UNCHANGED <<task_ref, forcedPc, passVars, valVars, cacheVars, concVars, histVars>>

\* CancelledError is raised at the await the task is suspended at
TaskCancelled(i) ==
    /\ i \in DOMAIN tasks
    /\ tasks[i].cancel
    /\ tasks[i].pc # "ended"
    /\ tasks' = [tasks EXCEPT ![i] =
                   [@ EXCEPT !.cancel = FALSE, !.pc = AfterCancel(@),
                             !.sleep_for = IF AfterCancel(tasks[i].pc) = "ended"
                                           THEN 0 ELSE SleepAfter(TRUE),
                             !.slept = 0]]
    /\ UNCHANGED <<is_running, task_ref, stopper, forcedPc, last_call, passVars,
                   valVars, cacheVars, concVars, histVars>>

\* lines 54-58: the await of stop() ends with the task
StopReturn ==
    /\ stopper.pc = "waiting"
    /\ stopper.task = 0 \/ tasks[stopper.task].pc = "ended"
    /\ stopper' = NotStopping
    /\ last_call' = ApiCall("stop_returned")
    /\ UNCHANGED <<is_running, tasks, task_ref, forcedPc, passVars, valVars, cacheVars,
                   concVars, histVars>>

\* one tick passes for every task that sleeps
LoopTick ==
    /\ \E i \in DOMAIN tasks :
          tasks[i].pc \in Sleeping /\ tasks[i].slept < tasks[i].sleep_for
    /\ tasks' = [i \in DOMAIN tasks |->
                   IF tasks[i].pc \in Sleeping /\ tasks[i].slept < tasks[i].sleep_for
                   THEN [tasks[i] EXCEPT !.slept = @ + 1]
                   ELSE tasks[i]]
    /\ UNCHANGED <<is_running, task_ref, stopper, forcedPc, last_call, passVars,
                   valVars, cacheVars, concVars, histVars>>

\* the sleep of task i returns, line 64, 72 or 78 by its state pc, and the
\* loop tests is_running (line 66)
LoopWakes(i, pc) ==
    /\ i \in DOMAIN tasks
    /\ tasks[i].pc = pc
    /\ ~tasks[i].cancel
    /\ tasks[i].slept = tasks[i].sleep_for
    /\ tasks' = [tasks EXCEPT ![i] =
                   IF is_running
                   THEN [@ EXCEPT !.pc = "collect", !.sleep_for = 0, !.slept = 0,
                                  !.ran_pass = TRUE]
                   ELSE [@ EXCEPT !.pc = "ended", !.sleep_for = 0, !.slept = 0]]
    /\ UNCHANGED <<is_running, task_ref, stopper, forcedPc, last_call, passVars,
                   valVars, cacheVars, concVars, histVars>>

\* the pass of task i ends: _collect_all_data returns (line 68) or raises
\* (line 76)
LoopPassEnds(i, raised) ==
    /\ i \in DOMAIN tasks
    /\ tasks[i].pc = "collect"
    /\ ~tasks[i].cancel
    /\ tasks' = [tasks EXCEPT ![i] =
                   [@ EXCEPT !.pc = IF raised THEN "backoff" ELSE "interval",
                             !.sleep_for = SleepAfter(raised), !.slept = 0]]
    /\ UNCHANGED <<is_running, task_ref, stopper, forcedPc, last_call, passVars,
                   valVars, cacheVars, concVars, histVars>>

\* force_collection() up to its await, lines 83-89
ForceCall ==
    /\ forcedPc = "idle"
    /\ forcedPc' = "running"
    /\ is_running' = RunningAfterForce(is_running)
    /\ last_call' = ApiCall("force")
    /\ UNCHANGED <<tasks, task_ref, stopper, passVars, valVars, cacheVars, concVars, histVars>>

\* the forced pass returned (lines 90-97) or raised (lines 99-108)
ForceReturn(raised) ==
    /\ forcedPc = "running"
    /\ forcedPc' = "idle"
    /\ is_running' = RunningAfterForce(is_running)
    /\ last_call' = ApiCall(IF raised THEN "force_failed" ELSE "force_ok")
    /\ UNCHANGED <<tasks, task_ref, stopper, passVars, valVars, cacheVars, concVars, histVars>>

TaskIds == 1..MaxTasks

NextLoop ==
    \/ StartCall
    \/ StopCall
    \/ StopReturn
    \/ LoopTick
    \/ ForceCall
    \/ \E raised \in BOOLEAN : ForceReturn(raised)
    \/ \E i \in TaskIds : TaskCancelled(i)
    \/ \E i \in TaskIds, pc \in Sleeping : LoopWakes(i, pc)
    \/ \E i \in TaskIds, raised \in BOOLEAN : LoopPassEnds(i, raised)

\* the event loop runs a task that is ready, time passes, and a pass ends,
\* by returning or by raising (its requests have timeouts); at most one
\* task at a time is not yet ended
LoopFairness ==
    /\ WF_vars(LoopTick)
    /\ WF_vars(StopReturn)
    /\ WF_vars(\E i \in TaskIds : TaskCancelled(i))
    /\ WF_vars(\E i \in TaskIds, pc \in Sleeping : LoopWakes(i, pc))
    /\ WF_vars(\E i \in TaskIds, raised \in BOOLEAN : LoopPassEnds(i, raised))

SpecLoop == InitLoop /\ [][NextLoop]_vars /\ LoopFairness

-----------------------------------------------------------------------------
(* Properties of the valuation *)

\* positions of the basket members that have an entry in the quote map
Quoted(tokens, token_prices) ==
    {i \in 1..Len(tokens) : tokens[i].name \in DOMAIN token_prices}

\* sum of the weights (numerators) of the members at positions S
WeightSum(tokens, S) == SumOver(S, [i \in S |-> tokens[i].weight])

\* sum of weight * price and of weight * market cap over positions S, the quote
\* of position i being quoteOf[i]
WeightedPriceSum(tokens, quoteOf, S) ==
    SumOver(S, [i \in S |-> tokens[i].weight * quoteOf[i].price])

WeightedCapSum(tokens, quoteOf, S) ==
    SumOver(S, [i \in S |-> tokens[i].weight * quoteOf[i].marketCap])

\* the quote of each quoted position, read from the quote map
QuoteAt(tokens, token_prices) ==
    [i \in Quoted(tokens, token_prices) |-> token_prices[tokens[i].name]]

\* C6: a successful valuation has price = base * sum(w*p) / sum(w) and
\* market cap = sum(w*mc) undivided, both sums over the members that have a
\* quote; when every member is quoted and the weights sum to 1 the price is
\* base * sum(w*p).
C6_WeightedAverage ==
    (vPc = "done" /\ vResult.ok) =>
        LET Q == Quoted(vTokens, vPrices)
            q == QuoteAt(vTokens, vPrices)
        IN /\ WeightSum(vTokens, Q) > 0
           /\ FracEq(vResult.price,
                     Frac(vBase * WeightedPriceSum(vTokens, q, Q), WeightSum(vTokens, Q)))
           /\ FracEq(vResult.market_cap,
                     Frac(WeightedCapSum(vTokens, q, Q), WeightDen))
           /\ (Q = 1..Len(vTokens) /\ WeightSum(vTokens, Q) = WeightDen) =>
                 FracEq(vResult.price,
                        Frac(vBase * WeightedPriceSum(vTokens, q, Q), WeightDen))

\* a valuation succeeded on two quoted members and one unquoted member of
\* positive weight, the quoted weights not summing to 1
C6_Witness ==
    /\ vPc = "done"
    /\ vResult.ok
    /\ Cardinality(Quoted(vTokens, vPrices)) = 2
    /\ \E i \in 1..Len(vTokens) :
          i \notin Quoted(vTokens, vPrices) /\ vTokens[i].weight > 0
    /\ WeightSum(vTokens, Quoted(vTokens, vPrices)) # WeightDen

\* positions whose get_token_price call returned a quote
Fetched(outcome) == {i \in 1..Len(outcome) : outcome[i] # FetchFailed}

-----------------------------------------------------------------------------
(* Properties of the cache *)

\* C9: at every time a lookup of key k returns the stored value exactly when
\* k was set and less than the TTL has passed since its last set; a key never
\* set and a key aged the TTL or more miss (the lookup returns nothing).
C9_LookupIffFresh ==
    \A k \in CacheKeys :
        GetFromCache(cache, cache_timestamps, k, now) =
            IF k \in DOMAIN lastSet /\ now - lastSet[k].t < TtlTicks
            THEN lastSet[k].value
            ELSE NoData

\* a call was just served from the cache while another key, set earlier, has
\* aged exactly the TTL and a third key was never set
C9_Witness ==
    /\ served.hit
    /\ \E k \in DOMAIN lastSet : now - lastSet[k].t = TtlTicks
    /\ \E k \in CacheKeys : k \notin DOMAIN lastSet

\* C10: a result served from the cache reports an age a, the whole seconds
\* between the store and the read of the age, with 0 <= a < cache_ttl_seconds.
C10_ServedAgeBelowTtl ==
    served.hit =>
        /\ served.cache_age_seconds =
              (served.read_at - served.stored_at) \div TicksPerSecond
        /\ 0 <= served.cache_age_seconds
        /\ served.cache_age_seconds < cache_ttl_seconds

\* what the cache holds for key k: the value and the fetch time, if any
EntryOf(c, timestamps, k) ==
    [has_value |-> k \in DOMAIN c,
     value |-> IF k \in DOMAIN c THEN c[k] ELSE NoData,
     has_time |-> k \in DOMAIN timestamps,
     time |-> IF k \in DOMAIN timestamps THEN timestamps[k] ELSE 0]

\* the last call of calculate_index_price raised
ServedFailure == served.index_id # None /\ ~served.hit /\ ~served.result.ok

\* C11: a call of calculate_index_price that fails (unknown index, no tokens,
\* also after a dynamic selection that raised, no quotes, zero total weight)
\* leaves the value and the fetch time under its price key exactly as they
\* were, creating no entry and refreshing none; a lookup of the key after the
\* failure still misses, so the next call computes again.
C11_NoNegativeCaching ==
    /\ [][(served'.index_id # None /\ ~served'.hit /\ ~served'.result.ok) =>
            EntryOf(cache', cache_timestamps', PriceKey(served'.index_id)) =
            EntryOf(cache, cache_timestamps, PriceKey(served'.index_id))]_vars
    /\ [](ServedFailure =>
            GetFromCache(cache, cache_timestamps, PriceKey(served.index_id), now)
                = NoData)

\* a call failed on a key whose expired entry is still stored with the fetch
\* time of the set that wrote it
C11_Witness ==
    /\ ServedFailure
    /\ PriceKey(served.index_id) \in DOMAIN cache
    /\ cache_timestamps[PriceKey(served.index_id)] + TtlTicks <= served.checked_at

\* C12: a call served from the cache leaves every cached value and fetch time
\* as they were and reports the age from the stored fetch time to its own
\* clock read; every stored fetch time is the time of the set that wrote the
\* entry, so the entry misses once the TTL has passed since that set,
\* however often it was read.
C12_HitLeavesEntry ==
    /\ [][served'.hit => UNCHANGED <<cache, cache_timestamps>>]_vars
    /\ [][(served'.hit /\ served' # served) =>
            /\ served'.result = cache[PriceKey(served'.index_id)]
            /\ served'.cache_age_seconds =
                 (served'.read_at - cache_timestamps[PriceKey(served'.index_id)])
                     \div TicksPerSecond]_vars
    /\ [](\A k \in DOMAIN cache_timestamps :
            /\ k \in DOMAIN lastSet
            /\ cache_timestamps[k] = lastSet[k].t
            /\ now >= lastSet[k].t + TtlTicks =>
                 ~IsCacheValid(cache_timestamps, k, now))

\* an entry was served from the cache after its set and has now expired, with
\* the fetch time it had when it was read
C12_Witness ==
    /\ served.hit
    /\ served.read_at > served.stored_at
    /\ PriceKey(served.index_id) \in DOMAIN cache_timestamps
    /\ cache_timestamps[PriceKey(served.index_id)] = served.stored_at
    /\ now >= served.stored_at + TtlTicks
    /\ GetFromCache(cache, cache_timestamps, PriceKey(served.index_id), now) = NoData

\* C13: under any interleaving of concurrent calculate_index_price calls on
\* one key, the cache holds a (value, fetch time) pair written together by
\* one set: a key has a fetch time iff it has a value, the pair in the cache
\* is the pair of the set that ran last, and a hit returns the value and the
\* fetch time of that one set.
C13_PairOfOneSet ==
    /\ [](DOMAIN cache = DOMAIN cache_timestamps)
    /\ [](\A k \in DOMAIN cache :
            /\ k \in DOMAIN lastSet
            /\ cache[k] = lastSet[k].value
            /\ cache_timestamps[k] = lastSet[k].t)
    /\ [][(served'.hit /\ served' # served) =>
            /\ PriceKey(served'.index_id) \in DOMAIN lastSet
            /\ served'.result = lastSet[PriceKey(served'.index_id)].value
            /\ served'.stored_at = lastSet[PriceKey(served'.index_id)].t
            /\ served'.cache_age_seconds =
                  (now - lastSet[PriceKey(served'.index_id)].t) \div TicksPerSecond]_vars

\* two calls for one index were fetching at the same time, both stored, at
\* different times and with different values, and the later pair remains
C13_Witness ==
    \E c \in Callers : \E d \in Callers \ {c} :
        /\ calls[c].raced
        /\ calls[c].pc = "idle" /\ calls[d].pc = "idle"
        /\ calls[d].set_value # NoData
        /\ calls[d].set_value # calls[c].set_value
        /\ cache[PriceKey(calls[c].index_id)] = calls[c].set_value
        /\ cache_timestamps[PriceKey(calls[c].index_id)] = now
        /\ served.hit
        /\ served.result = calls[c].set_value

-----------------------------------------------------------------------------
(* Properties of the loop tasks (SpecLoop) *)

\* the step is the API step op
ApiStep(op) == last_call'.flip # last_call.flip /\ last_call'.op = op

\* the loops that can still begin a pass: not ended, no cancellation pending
LiveLoops == {i \in DOMAIN tasks : tasks[i].pc # "ended" /\ ~tasks[i].cancel}

\* C14: start() while the collector runs changes nothing; at most one loop
\* able to begin a new pass exists at any time; start() returns with the new
\* task still before its startup delay; and a start() while the collector
\* is stopped creates a fresh task and sets is_running.
C14_StartOnce ==
    /\ [][ApiStep("start_noop") =>
            is_running /\ UNCHANGED <<is_running, tasks, task_ref, stopper>>]_vars
    /\ [](Cardinality(LiveLoops) <= 1)
    /\ [][ApiStep("start") =>
            /\ ~is_running /\ is_running'
            /\ tasks' = Append(tasks, NewTask)
            /\ task_ref' = Len(tasks')
            /\ tasks'[task_ref'].pc = "startup" /\ tasks'[task_ref'].slept = 0
            /\ LiveLoops' = {task_ref'}]_vars

\* a start() that followed a completed stop(): the first loop has ended, the
\* second is in a pass
C14_Witness ==
    /\ Len(tasks) = 2
    /\ tasks[1].pc = "ended"
    /\ tasks[2].pc = "collect"
    /\ is_running
    /\ last_call.op = "start_noop"

\* C15: stop() while the collector is not running is a no-op (so is a second
\* stop()); a stop() made in any loop state eventually returns; when it
\* returns its task has ended and is_running is false; and a task that
\* stop() cancelled takes no step but its termination and begins no pass.
C15_StopTerminates ==
    /\ [][ApiStep("stop_noop") =>
            ~is_running /\ UNCHANGED <<is_running, tasks, task_ref, stopper>>]_vars
    /\ (stopper.pc = "waiting") ~> (stopper.pc = "idle")
    /\ [][ApiStep("stop_returned") =>
            /\ tasks'[stopper.task].pc = "ended"
            /\ ~is_running'
            /\ LiveLoops' = {}]_vars
    /\ [][\A i \in DOMAIN tasks :
            (tasks[i].stopped_in # "none" /\ tasks'[i].pc # tasks[i].pc) =>
                tasks'[i].pc = "ended" /\ tasks'[i].ran_pass = tasks[i].ran_pass]_vars

\* four calls of stop() have returned, one made in each state of the loop
C15_Witness ==
    /\ last_call.op = "stop_returned"
    /\ Len(tasks) = 4
    /\ \A i \in DOMAIN tasks : tasks[i].pc = "ended"
    /\ {tasks[i].stopped_in : i \in DOMAIN tasks} =
          {"startup", "collect", "interval", "backoff"}

\* seconds task i has slept in its current sleep
SleptSeconds(i) == tasks[i].slept * LoopTickSeconds

\* C16: the first pass of a loop begins only when the startup delay has
\* elapsed, and a loop whose stop() came during that delay never runs a
\* pass; the startup delay is waited once per task, never again after a
\* pass; and after a pass that returned, the next pass begins only after a
\* sleep of querier_interval_minutes * 60 seconds.
C16_DelaysBeforePasses ==
    /\ [][\A i \in DOMAIN tasks :
            (tasks[i].pc # "collect" /\ tasks'[i].pc = "collect") =>
                /\ tasks[i].pc \in Sleeping
                /\ tasks[i].pc = "startup" <=> ~tasks[i].ran_pass
                /\ tasks[i].pc = "startup" =>
                      SleptSeconds(i) >= querier_startup_delay_seconds
                /\ tasks[i].pc = "interval" =>
                      SleptSeconds(i) >= querier_interval_minutes * 60]_vars
    /\ [](\A i \in DOMAIN tasks :
            /\ tasks[i].stopped_in = "startup" => ~tasks[i].ran_pass
            /\ tasks[i].pc = "startup" => ~tasks[i].ran_pass)
    /\ [][\A i \in DOMAIN tasks :
            (tasks[i].pc # "startup" => tasks'[i].pc # "startup")
            /\ (tasks[i].pc = "collect" /\ tasks'[i].pc = "interval" =>
                   tasks'[i].slept = 0)]_vars

\* a loop stopped in its startup delay, and a later one that has run a pass
\* and slept its whole interval
C16_Witness ==
    /\ Len(tasks) = 2
    /\ tasks[1].pc = "ended" /\ tasks[1].stopped_in = "startup"
    /\ tasks[2].pc = "interval" /\ tasks[2].ran_pass
    /\ SleptSeconds(2) >= querier_interval_minutes * 60

\* the state of the loop that can still begin a pass, "none" without one
LivePc == IF LiveLoops = {} THEN "none" ELSE tasks[CHOOSE i \in LiveLoops : TRUE].pc

\* C17: a pass that raises does not end the loop: the task goes to the
\* backoff sleep, sleeps backoff_seconds (to the tick, not the interval)
\* and then begins another pass; and unless stop() is called, every pass ends
\* in a sleep and every sleep after a pass ends in another pass (LivePc is
\* "none" once stop() has cancelled the loop).
C17_LoopSurvivesErrors ==
    /\ [][\A i \in DOMAIN tasks :
            /\ (tasks[i].pc = "collect" /\ tasks'[i].pc # "collect"
                    /\ tasks[i].stopped_in = "none") =>
                  tasks'[i].pc \in {"interval", "backoff"} /\ tasks'[i].slept = 0
            /\ (tasks[i].pc = "backoff" /\ tasks'[i].pc # "backoff"
                    /\ tasks[i].stopped_in = "none") =>
                  /\ tasks'[i].pc = "collect"
                  /\ SleptSeconds(i) >= backoff_seconds
                  /\ SleptSeconds(i) - LoopTickSeconds < backoff_seconds]_vars
    /\ (LivePc = "collect") ~> (LivePc \in {"interval", "backoff", "none"})
    /\ (LivePc \in {"interval", "backoff"}) ~> (LivePc \in {"collect", "none"})

\* a pass has raised and its task has slept the whole backoff, the
\* collector still running
C17_Witness ==
    /\ is_running
    /\ LivePc = "backoff"
    /\ tasks[task_ref].pc = "backoff"
    /\ tasks[task_ref].ran_pass
    /\ SleptSeconds(task_ref) >= backoff_seconds

\* the step belongs to force_collection
ForceStep == ApiStep("force") \/ ApiStep("force_ok") \/ ApiStep("force_failed")

-----------------------------------------------------------------------------
(* Properties of the collector *)

\* the committed snapshots that pass number run added
RowsOfRun(run) == SelectSeq(db_prices, LAMBDA row : row.run = run)

\* C1: a pass over N loaded baskets that reached its commit valued each basket
\* exactly once, in load order, and persisted exactly N snapshots, the i-th
\* for the i-th basket with success = whether its valuation returned; so a
\* failed basket did not keep the later ones from being attempted.
C1_OneSnapshotPerBasket ==
    \A p \in Executors :
        pass[p].pc = "done" =>
            LET ps == pass[p]
                N == Len(ps.indexes)
                rows == RowsOfRun(ps.run)
            IN /\ Len(ps.valued) = N
               /\ Len(rows) = N
               /\ \A i \in 1..N :
                    /\ ps.valued[i].index_id = ps.indexes[i].id
                    /\ rows[i].index_id = ps.indexes[i].id
                    /\ rows[i].calculation_successful = ps.valued[i].ok

\* a committed pass over four baskets whose second basket failed and whose
\* third succeeded
C1_Witness ==
    \E p \in Executors :
        /\ pass[p].pc = "done"
        /\ Len(pass[p].indexes) = 4
        /\ Len(RowsOfRun(pass[p].run)) = 4
        /\ ~RowsOfRun(pass[p].run)[2].calculation_successful
        /\ RowsOfRun(pass[p].run)[3].calculation_successful

\* the error entries of the baskets of a pass that failed, in load order
FailedOf(valued) ==
    LET F == SelectSeq(valued, LAMBDA v : ~v.ok)
    IN [i \in 1..Len(F) |-> [index |-> F[i].index_id, text |-> F[i].error]]

\* what C2 expects of the pass record ps of a pass that returned
StatusAsClaimed(ps) ==
    /\ ps.status_calls = 1
    /\ ps.status_success <=> \E i \in 1..Len(ps.valued) : ps.valued[i].ok
    /\ ~ps.status_success =>
          ps.status_message =
              Joined(SubSeq(FailedOf(ps.valued), 1, Min(3, Len(FailedOf(ps.valued)))))

\* C2: a pass that completes makes exactly one status update, made after all
\* its baskets were attempted; the run counts as successful exactly when a
\* basket succeeded (zero baskets: failed), and the commit of a failed run
\* stores as last error the first up to three basket errors joined.
C2_OneStatusUpdate ==
    /\ [](\A p \in Executors :
            /\ (pass[p].status_calls > 0 /\ pass[p].critical = None) =>
                  Len(pass[p].valued) = Len(pass[p].indexes)
            /\ pass[p].pc = "done" => StatusAsClaimed(pass[p]))
    /\ [][\A p \in Executors :
            (pass[p].pc = "commit" /\ pass'[p].pc = "done") =>
                /\ db_status'.total_runs > 0
                /\ ~pass[p].status_success =>
                      db_status'.last_error_message = pass'[p].status_message]_vars

\* a pass returned after all of its four baskets failed
C2_Witness ==
    \E p \in Executors :
        /\ pass[p].pc = "done"
        /\ Len(pass[p].errors) = 4
        /\ ~pass[p].status_success
        /\ db_status.last_error_message = pass[p].status_message

\* C3: whenever the status row exists, with no update in progress,
\* total_runs = successful_runs + failed_runs.
C3_CountersAddUp ==
    db_status.exists =>
        db_status.total_runs = db_status.successful_runs + db_status.failed_runs

\* C4: as long as passes ran one after another, with N of them completed and
\* F of those recorded as failed, the status row has total_runs = N,
\* failed_runs = F and successful_runs = N - F; there is no row before the
\* first run completes, which creates it with total_runs = 1.
C4_SequentialCounts ==
    ~overlapped =>
        /\ db_status.exists <=> finished > 0
        /\ db_status.exists =>
             /\ db_status.total_runs = finished
             /\ db_status.failed_runs = finishedFailed
             /\ db_status.successful_runs = finished - finishedFailed

\* three passes completed one after another, the loop's and forced ones, two
\* of them failed
C4_Witness ==
    /\ ~overlapped
    /\ finished = 3
    /\ finishedFailed = 2
    /\ pass["loop"].pc \in {"done", "raised"}
    /\ pass["forced"].pc \in {"done", "raised"}
    /\ db_status.successful_runs = 1

\* C5: a persisted snapshot with success = false has price, market cap and the
\* other numeric fields zero and an error_message that is not null; one with
\* success = true has a null error_message.
C5_SnapshotShape ==
    \A i \in 1..Len(db_prices) :
        LET row == db_prices[i]
        IN IF row.calculation_successful
           THEN row.error_message = None
           ELSE /\ row.price = Zero
                /\ row.market_cap = Zero
                /\ row.volume_24h = Zero
                /\ row.price_change_24h = Zero
                /\ row.price_change_7d = Zero
                /\ row.token_count = 0
                /\ row.error_message # None

\* the table holds a failed and a successful snapshot of one pass
C5_Witness ==
    \E i, j \in 1..Len(db_prices) :
        /\ db_prices[i].run = db_prices[j].run
        /\ ~db_prices[i].calculation_successful
        /\ db_prices[j].calculation_successful
        /\ db_prices[j].price # Zero

\* C18: when stop() finds a pass of the loop in the middle of a basket, that
\* basket is finished and its snapshot is persisted before the loop ends.
C18_CurrentBasketPersisted ==
    LET ps == pass["loop"]
    IN (ps.pc = "cancelled" /\ ps.idx \in 1..Len(ps.indexes)) =>
          \E k \in 1..Len(db_prices) :
              /\ db_prices[k].run = ps.run
              /\ db_prices[k].index_id = ps.indexes[ps.idx].id

\* the successful and the failed snapshots a pass persisted
RowsWith(run, ok) ==
    SelectSeq(db_prices, LAMBDA row : row.run = run /\ row.calculation_successful = ok)

\* C20: a call of force_collection runs one pass, and when that pass has
\* completed its summary counts add up to the number of baskets loaded,
\* equal the numbers of successful and of failed snapshots the pass
\* persisted, and the error list has one entry per failed basket.
C20_ForcedSummary ==
    /\ [](pass["forced"].pc = "done" =>
            LET ps == pass["forced"]
            IN /\ ps.successful_indexes + ps.failed_indexes = Len(ps.indexes)
               /\ ps.successful_indexes = Len(RowsWith(ps.run, TRUE))
               /\ ps.failed_indexes = Len(RowsWith(ps.run, FALSE))
               /\ Len(ps.errors) = ps.failed_indexes)
    /\ [][InFlight(pass["forced"]) => pass'["forced"].run = pass["forced"].run]_vars

\* a forced pass over four baskets has completed with successes and
\* failures, after an earlier pass had persisted its own snapshots
C20_Witness ==
    /\ pass["forced"].pc = "done"
    /\ Len(pass["forced"].indexes) = 4
    /\ pass["forced"].successful_indexes = 2
    /\ pass["forced"].failed_indexes = 2
    /\ pass["forced"].run = 2
    /\ Len(db_prices) = 8

\* the status message of a pass that could not load the basket list
ConfigErrorMessage == Joined(<<[index |-> None, text |-> ConfigError]>>)

\* C21: a pass that cannot load the basket list persists no snapshot, and
\* the commit of its failure record raises total_runs and failed_runs by one
\* each and sets the last error, before the error reaches the caller (the
\* loop goes to its backoff sleep, the forced call has raised).
C21_CriticalRunRecorded ==
    /\ [][\A p \in Executors :
            (pass[p].pc = "crit_commit" /\ pass[p].critical = ConfigError
                /\ pass'[p].pc = "raised") =>
                  /\ db_status'.exists
                  /\ db_status'.total_runs = db_status.total_runs + 1
                  /\ db_status'.failed_runs = db_status.failed_runs + 1
                  /\ db_status'.successful_runs = db_status.successful_runs
                  /\ db_status'.last_error_message = ConfigErrorMessage
                  /\ db_prices' = db_prices
                  /\ (p = "loop" => loopPc' = "backoff")]_vars
    /\ [](\A p \in Executors :
            pass[p].critical = ConfigError =>
                /\ pass[p].pending = <<>>
                /\ \A k \in 1..Len(db_prices) : db_prices[k].run # pass[p].run)

\* the status update of the pass of p met a persistence failure: its SELECT
\* raised, or the flush of its INSERT at the commit raised
StatusFailure(ps) == ps.read_failed \/ ps.critical = "IntegrityError"

\* C22: a persistence failure of the status update is swallowed: the pass is
\* not aborted and raises nothing to its caller, and its snapshots are
\* committed.
C22_StatusFailureSwallowed ==
    \A p \in Executors :
        LET ps == pass[p]
        IN (StatusFailure(ps) /\ ~InFlight(ps) /\ ps.pc # "cancelled") =>
              /\ ps.pc = "done"
              /\ Len(RowsOfRun(ps.run)) = Len(ps.indexes)

\* C23: all snapshots persisted by one pass carry one timestamp, the start
\* time the pass took before it valued its first basket, however long the
\* valuations took and whether they succeeded: the start time is the clock
\* at the moment the pass begins and does not move while the pass runs, every
\* row the pass holds or commits carries it, and any two committed rows of
\* one pass have equal timestamps.
C23_OneTimestampPerPass ==
    /\ [][\A p \in Executors :
            /\ (~InFlight(pass[p]) /\ InFlight(pass'[p])) =>
                    /\ pass'[p].start_time = now
                    /\ pass'[p].valued = <<>>
            /\ (InFlight(pass[p]) /\ pass'[p].run = pass[p].run) =>
                    pass'[p].start_time = pass[p].start_time
            /\ (pass[p].pc = "commit" /\ pass'[p].pc = "done") =>
                    \A k \in Len(db_prices) + 1..Len(db_prices') :
                        db_prices'[k].timestamp = pass[p].start_time]_vars
    /\ [](\A p \in Executors :
            \A k \in 1..Len(pass[p].pending) :
                pass[p].pending[k].timestamp = pass[p].start_time)
    /\ [](\A j, k \in 1..Len(db_prices) :
            db_prices[j].run = db_prices[k].run =>
                db_prices[j].timestamp = db_prices[k].timestamp)

\* a pass committed a successful and a failed snapshot after the clock had
\* moved on from its start time
C23_Witness ==
    \E p \in Executors :
        /\ pass[p].pc = "done"
        /\ now > pass[p].start_time
        /\ \E j, k \in 1..Len(db_prices) :
              /\ db_prices[j].run = pass[p].run
              /\ db_prices[k].run = pass[p].run
              /\ db_prices[j].calculation_successful
              /\ ~db_prices[k].calculation_successful
              /\ db_prices[j].timestamp = pass[p].start_time

\* C24: the committed snapshots only grow: every step of the collector (a
\* scheduled or forced pass, also a failing one, start(), stop(), a status
\* read, a historical query) leaves each snapshot that was already committed
\* in place and unchanged; new snapshots are added after them.
C24_SnapshotsAppendOnly ==
    [][/\ Len(db_prices') >= Len(db_prices)
       /\ SubSeq(db_prices', 1, Len(db_prices)) = db_prices]_vars

\* snapshots of two passes are stored, the later pass valued a basket the
\* earlier one had stored, and a pass has been cancelled or has raised
C24_Witness ==
    /\ \E j, k \in 1..Len(db_prices) :
          /\ db_prices[j].run < db_prices[k].run
          /\ db_prices[j].index_id = db_prices[k].index_id
    /\ \E p \in Executors : pass[p].pc \in {"cancelled", "raised"}

\* the history request was answered with a list of points
Answered == hist.pc = "responded" /\ hist.status_code = 200

\* the stored rows the answered request is about: of its basket, flagged
\* successful, with a timestamp in [start, end]
EligibleRows ==
    {k \in 1..Len(db_prices) :
        /\ db_prices[k].index_id = hist.index_id
        /\ db_prices[k].calculation_successful
        /\ DtLeq(hist.start_date, db_prices[k].timestamp)
        /\ DtLeq(db_prices[k].timestamp, hist.end_date)}

\* the eligible rows assigned to the bucket that starts at boundary
BucketRows(boundary) ==
    {k \in EligibleRows : Boundary(db_prices[k].timestamp, hist.interval) = boundary}

\* C25: in a historical result the price and the volume of every point are
\* those of a record with the greatest timestamp among the eligible records
\* of the point's bucket, never those of an earlier record of the bucket.
C25_LastRecordOfBucket ==
    Answered =>
        \A i \in 1..Len(hist.response) :
            LET point == hist.response[i]
                rows == BucketRows(point.timestamp)
            IN \E k \in rows :
                 /\ \A j \in rows : DtLeq(db_prices[j].timestamp, db_prices[k].timestamp)
                 /\ point.price = db_prices[k].price
                 /\ point.volume = db_prices[k].volume_24h

\* the records of 23:10 and 23:50 of one day were resampled by day and the
\* point of that day carries the price of the 23:50 record
C25_Witness ==
    /\ Answered
    /\ hist.interval = "1d"
    /\ \E i \in 1..Len(hist.response) :
          \E j, k \in BucketRows(hist.response[i].timestamp) :
              /\ db_prices[j].timestamp = DateTime(2024, 1, 31, 23, 10, 5, 7)
              /\ db_prices[k].timestamp = DateTime(2024, 1, 31, 23, 50, 0, 0)
              /\ hist.response[i].price = db_prices[k].price
              /\ hist.response[i].price # db_prices[j].price

\* the hours from 0001-01-01 00:00, a Monday, to the hour of t
HourIndex(t) == (ToOrdinal(t) - 1) * 24 + t.hour

\* the length of the intervals of fixed length, in hours
IntervalHours(interval) ==
    IF interval = "1h" THEN 1
    ELSE IF interval = "4h" THEN 4
    ELSE IF interval = "1d" THEN 24
    ELSE 168

\* b is the latest instant not after t that is aligned to the interval: the
\* top of an hour whose index is the multiple of the interval's length next
\* below the hour of t, or midnight of the 1st of the month of t
LatestAligned(b, t, interval) ==
    /\ b.minute = 0 /\ b.second = 0 /\ b.microsecond = 0
    /\ b.month \in 1..12 /\ b.day \in 1..DaysInMonth(b.year, b.month)
    /\ DtLeq(b, t)
    /\ IF interval = "1M"
       THEN b.year = t.year /\ b.month = t.month /\ b.day = 1 /\ b.hour = 0
       ELSE /\ HourIndex(b) = HourIndex(t) - (HourIndex(t) % IntervalHours(interval))
            /\ (interval = "1w" => Weekday(b) = 0 /\ b.hour = 0)
            /\ (interval = "1d" => b.hour = 0)
            /\ (interval = "4h" => b.hour % 4 = 0)

\* C26: the bucket start of a record is the latest instant not after its
\* timestamp that is aligned to the interval (top of the hour, hour a
\* multiple of 4, midnight, midnight of the most recent Monday, midnight of
\* the 1st of the month), and the bucket start is monotone in the timestamp.
C26_BucketStart ==
    hist.pc \in {"resample", "responded"} =>
        /\ \A i \in 1..Len(hist.db_records) :
              LatestAligned(Boundary(hist.db_records[i].timestamp, hist.interval),
                            hist.db_records[i].timestamp, hist.interval)
        /\ \A t \in PassInstants :
              LatestAligned(Boundary(t, hist.interval), t, hist.interval)
        /\ \A t1, t2 \in PassInstants :
              DtLeq(t1, t2) =>
                  DtLeq(Boundary(t1, hist.interval), Boundary(t2, hist.interval))

\* a record of Thursday 2024-02-01 05:30 was put by week into the bucket of
\* Monday 2024-01-29, in the month before
C26_Witness ==
    /\ Answered
    /\ hist.interval = "1w"
    /\ \E i \in 1..Len(hist.db_records) :
          /\ hist.db_records[i].timestamp = DateTime(2024, 2, 1, 5, 30, 0, 0)
          /\ Boundary(hist.db_records[i].timestamp, "1w") = DateTime(2024, 1, 29, 0, 0, 0, 0)
          /\ \E j \in 1..Len(hist.response) :
                hist.response[j].timestamp = DateTime(2024, 1, 29, 0, 0, 0, 0)

\* the starts of the buckets the result has to show: those that hold an
\* eligible row and that themselves lie in [start, end]
BucketsInWindow ==
    {b \in {Boundary(db_prices[k].timestamp, hist.interval) : k \in EligibleRows} :
        DtLeq(hist.start_date, b) /\ DtLeq(b, hist.end_date)}

\* C27: a historical result has exactly one point for each bucket that holds
\* an eligible record and whose start lies in [start, end], and no other
\* point, so a bucket that starts before `start` is left out even though it
\* holds records of the window; the points are in strictly ascending order
\* of timestamp and the timestamp of a point is the start of its bucket.
C27_OnePointPerBucketInWindow ==
    Answered =>
        /\ {hist.response[i].timestamp : i \in 1..Len(hist.response)} = BucketsInWindow
        /\ Len(hist.response) = Cardinality(BucketsInWindow)
        /\ \A i \in 1..Len(hist.response) - 1 :
              DtLess(hist.response[i].timestamp, hist.response[i + 1].timestamp)

\* a result of two points, while an eligible record of the window is not
\* shown because its bucket starts before start_date
C27_Witness ==
    /\ Answered
    /\ Len(hist.response) >= 2
    /\ \E k \in EligibleRows :
          /\ DtLess(Boundary(db_prices[k].timestamp, hist.interval), hist.start_date)
          /\ \A i \in 1..Len(hist.response) :
                hist.response[i].timestamp # Boundary(db_prices[k].timestamp, hist.interval)

\* the store had the failed snapshots never been written
WithoutFailed(table) == SelectSeq(table, LAMBDA row : row.calculation_successful)

\* C28: a failed snapshot never influences a historical result: the points
\* returned are those the same request returns from the store without its
\* failed snapshots, also when a failed snapshot is the latest record of its
\* bucket, and no point carries the zeroed price of a failed snapshot.
C28_FailedSnapshotsIgnored ==
    Answered =>
        /\ \E db_records \in QueryResults(WithoutFailed(db_prices), hist.index_id,
                                          hist.start_date, hist.end_date) :
              hist.response = Resample(db_records, hist.start_date, hist.end_date,
                                       hist.interval)
        /\ \A i \in 1..Len(hist.response) :
              /\ hist.response[i].price # Zero
              /\ \E k \in 1..Len(db_prices) :
                    /\ db_prices[k].calculation_successful
                    /\ db_prices[k].price = hist.response[i].price

\* a failed snapshot of the basket is the latest record of a bucket of the
\* window, and the point of that bucket carries the price of the successful
\* snapshot before it
C28_Witness ==
    /\ Answered
    /\ \E j, k \in 1..Len(db_prices), i \in 1..Len(hist.response) :
          /\ db_prices[j].index_id = hist.index_id
          /\ db_prices[k].index_id = hist.index_id
          /\ db_prices[j].calculation_successful
          /\ ~db_prices[k].calculation_successful
          /\ DtLess(db_prices[j].timestamp, db_prices[k].timestamp)
          /\ DtLeq(db_prices[k].timestamp, hist.end_date)
          /\ Boundary(db_prices[j].timestamp, hist.interval) = hist.response[i].timestamp
          /\ Boundary(db_prices[k].timestamp, hist.interval) = hist.response[i].timestamp
          /\ hist.response[i].price = db_prices[j].price

\* the records have one record per bucket boundary: each timestamp is its
\* own bucket start, and no two are equal
AlreadyBucketed(records, interval) ==
    /\ \A i \in 1..Len(records) : Boundary(records[i].timestamp, interval) = records[i].timestamp
    /\ \A i, j \in 1..Len(records) :
          i # j => records[i].timestamp # records[j].timestamp

\* the points of a result as records to resample
AsRecords(points) ==
    [i \in 1..Len(points) |->
        [timestamp |-> points[i].timestamp, price |-> points[i].price,
         volume_24h |-> points[i].volume]]

\* C29: resampling is idempotent: records that already are one per bucket
\* boundary come back as the same sequence of timestamps, prices and
\* volumes, and resampling a result at its own interval returns the result.
C29_ResampleIdempotent ==
    Answered =>
        /\ AlreadyBucketed(hist.db_records, hist.interval) =>
              /\ Len(hist.response) = Len(hist.db_records)
              /\ \A i \in 1..Len(hist.response) :
                    /\ hist.response[i].timestamp = hist.db_records[i].timestamp
                    /\ hist.response[i].price = hist.db_records[i].price
                    /\ hist.response[i].volume = hist.db_records[i].volume_24h
        /\ AlreadyBucketed(AsRecords(hist.response), hist.interval)
        /\ Resample(AsRecords(hist.response), hist.start_date, hist.end_date,
                    hist.interval) = hist.response

\* three records on three different tops of the hour were resampled at 1h
C29_Witness ==
    /\ Answered
    /\ hist.interval = "1h"
    /\ Len(hist.db_records) = 3
    /\ AlreadyBucketed(hist.db_records, hist.interval)
    /\ Len(hist.response) = 3

\* the request is past its validation
Validated == hist.pc \notin {"none", "validate"}

\* C30: a historical request whose start is not before its end is answered
\* with 400 before the basket is looked up, the store is queried or
\* anything is bucketed, whether or not the basket id is known.
C30_EmptyRangeRejectedFirst ==
    (Validated /\ ~DtLess(hist.start_date, hist.end_date)) =>
        /\ hist.pc = "responded"
        /\ hist.status_code = 400
        /\ ~hist.looked_up
        /\ ~hist.queried
        /\ hist.db_records = <<>>
        /\ hist.response = <<>>

\* a request for an unknown basket with start_date = end_date was answered
\* 400, not 404
C30_Witness ==
    /\ hist.pc = "responded"
    /\ hist.index_id = "nonexistent"
    /\ hist.start_date = hist.end_date
    /\ hist.start_date # NoDate
    /\ hist.status_code = 400
    /\ ~hist.looked_up

\* end - start is longer than 365 days, by whatever amount
LongerThanMaxDays(start_date, end_date) ==
    \/ ToOrdinal(end_date) - ToOrdinal(start_date) > 365
    \/ /\ ToOrdinal(end_date) - ToOrdinal(start_date) = 365
       /\ LexLess(TimeOfDay(start_date), TimeOfDay(end_date), 1)

\* C31: a historical request whose range is longer than 365 days by any
\* amount (365 days and 1 hour) is answered 400, and a request with
\* start < end and a range of at most 365 days passes validation.
C31_RangeOverAYearRejected ==
    Validated =>
        /\ LongerThanMaxDays(hist.start_date, hist.end_date) =>
              hist.pc = "responded" /\ hist.status_code = 400 /\ ~hist.looked_up
        /\ (DtLess(hist.start_date, hist.end_date)
              /\ ~LongerThanMaxDays(hist.start_date, hist.end_date)) =>
              hist.status_code # 400

\* the call of select_tokens_dynamically returned a list
SelReturned == sel.pc = "returned" /\ ~sel.raised

\* the candidates the call fetched: the head of the market
SelFetched == SubSeq(sel.market, 1, Min(Min(3 * sel.criteria.limit, 100), Len(sel.market)))

\* the ranks of the fetched candidates that pass every filter of the call
Qualifying ==
    {i \in 1..Len(SelFetched) :
        LET item == SelFetched[i]
            criteria == sel.criteria
        IN /\ item.symbol # ""
           /\ item.symbol \notin criteria.exclude_tokens
           /\ item.volume.base + item.volume.quote >= criteria.min_volume_ada
           /\ (criteria.min_market_cap # 0 => item.marketCap >= criteria.min_market_cap)
           /\ (criteria.include_categories # {} =>
                  item.categories \cap criteria.include_categories # {})}

\* the rank of the k-th qualifying candidate
KthQualifying(k) == CHOOSE i \in Qualifying : Cardinality({j \in Qualifying : j <= i}) = k

\* C32: dynamic selection returns, in rank order, exactly the first `limit`
\* of the fetched candidates that pass every filter, or all of them if they
\* are fewer; a candidate that fails a filter takes none of the slots.
C32_FilterThenTruncate ==
    SelReturned =>
        /\ Len(sel.tokens) = Min(sel.criteria.limit, Cardinality(Qualifying))
        /\ \A k \in 1..Len(sel.tokens) :
              /\ sel.tokens[k].name = SelFetched[KthQualifying(k)].symbol
              /\ sel.tokens[k].market_cap = SelFetched[KthQualifying(k)].marketCap

\* the limit is 2, the best-ranked candidate fails a filter, and the two
\* members returned are the second and the fourth of the market
C32_Witness ==
    /\ SelReturned
    /\ sel.criteria.limit = 2
    /\ Len(sel.tokens) = 2
    /\ 1 \notin Qualifying
    /\ Qualifying = {2, 4}

\* a + b of two rationals
FracAdd(a, b) == Frac(a[1] * b[2] + b[1] * a[2], a[2] * b[2])

RECURSIVE MemberWeightSum(_, _)
\* the sum of the weights of the members from the i-th on
MemberWeightSum(tokens, i) ==
    IF i > Len(tokens) THEN Zero
    ELSE FracAdd(tokens[i].weight, MemberWeightSum(tokens, i + 1))

\* C33: whenever dynamic selection returns a non-empty basket under equal
\* or market_cap weighting, the weights of its N members sum to 1: each is
\* 1/N under equal weighting, and the member's market cap over the total
\* market cap of the members under market_cap weighting.
C33_WeightsSumToOne ==
    (SelReturned /\ sel.tokens # <<>>
       /\ sel.criteria.weighting_method \in {"equal", "market_cap"}) =>
        /\ FracEq(MemberWeightSum(sel.tokens, 1), Frac(1, 1))
        /\ sel.criteria.weighting_method = "equal" =>
              \A k \in 1..Len(sel.tokens) :
                  FracEq(sel.tokens[k].weight,
                         Frac(1, Min(sel.criteria.limit, Cardinality(Qualifying))))
        /\ sel.criteria.weighting_method = "market_cap" =>
              \A k \in 1..Len(sel.tokens) :
                  sel.tokens[k].weight[1] * TotalMarketCap(sel.tokens, 1)
                      = sel.tokens[k].market_cap * sel.tokens[k].weight[2]

\* C34: dynamic selection with a weighting method other than equal or
\* market_cap fails with an error and returns no basket; it never returns
\* members whose weights were left unassigned.
C34_UnknownWeightingFails ==
    (sel.pc = "returned" /\ sel.criteria.weighting_method \notin {"equal", "market_cap"}) =>
        /\ sel.raised
        /\ sel.tokens = <<>>

\* the step is the valuation of dynamic index F by the pass of p, it called
\* the selection, the market answered and no candidate passed the filters
EmptySelectionStep(p) ==
    /\ pass[p].pc = "basket"
    /\ pass'[p].idx = pass[p].idx + 1
    /\ pass[p].indexes[pass[p].idx].id = "F"
    /\ sel'.calls = sel.calls + 1
    /\ sel'.fetch_ok
    /\ Qualifying' = {}

\* C35: when no candidate passes the filters, dynamic selection returns an
\* empty basket without raising; the valuation of that dynamic index fails
\* with the "no tokens available" error and caches no price, and the pass
\* records a success=false snapshot for it and goes on to the next basket.
C35_EmptySelectionFailsBasket ==
    [][\A p \in Executors :
          EmptySelectionStep(p) =>
              /\ ~sel'.raised
              /\ sel'.tokens = <<>>
              /\ Len(pass'[p].pending) = Len(pass[p].pending) + 1
              /\ LET record == pass'[p].pending[Len(pass'[p].pending)]
                 IN /\ record.index_id = "F"
                    /\ ~record.calculation_successful
                    /\ record.error_message = ErrNoTokens
              /\ GetFromCache(cache', cache_timestamps', PriceKey("F"), now) = NoData
              /\ PriceKey("F") \in DOMAIN cache' =>
                    /\ PriceKey("F") \in DOMAIN cache
                    /\ cache'[PriceKey("F")] = cache[PriceKey("F")]
                    /\ cache_timestamps'[PriceKey("F")] = cache_timestamps[PriceKey("F")]
              /\ pass'[p].failed_indexes = pass[p].failed_indexes + 1
              /\ pass'[p].pc = "basket"
              /\ pass'[p].indexes[pass'[p].idx].id = "B"]_vars

\* the market listed candidates, none passed the filters, and the pass that
\* asked has committed a failed snapshot of F and a successful one of B
C35_Witness ==
    /\ sel.pc = "returned"
    /\ sel.fetch_ok
    /\ sel.market # <<>>
    /\ sel.tokens = <<>>
    /\ \E p \in Executors :
          /\ pass[p].pc = "done"
          /\ \E j, k \in 1..Len(db_prices) :
                /\ db_prices[j].run = pass[p].run
                /\ db_prices[k].run = pass[p].run
                /\ db_prices[j].index_id = "F"
                /\ ~db_prices[j].calculation_successful
                /\ db_prices[j].error_message = ErrNoTokens
                /\ db_prices[k].index_id = "B"
                /\ db_prices[k].calculation_successful

\* the last conversion returned for a fund with as many factors as tokens,
\* all factors positive
FundWellFormed ==
    /\ fund.pc = "returned"
    /\ fund.tokens # <<>>
    /\ Len(fund.factors) = Len(fund.tokens)
    /\ \A i \in 1..Len(fund.factors) : fund.factors[i] > 0

\* C36: for every fund with as many factors as tokens and positive factors,
\* whatever strings its token ids are, the conversion yields exactly one
\* basket member per fund token, with weight factor_i / sum of the factors,
\* so that the weights of the basket sum to 1.
C36_OneMemberPerFundToken ==
    FundWellFormed =>
        /\ ~fund.raised
        /\ Len(fund.members) = Len(fund.tokens)
        /\ \A i \in 1..Len(fund.members) :
              FracEq(fund.members[i].weight,
                     Frac(fund.factors[i], SumFactors(fund.factors, 1)))
        /\ FracEq(MemberWeightSum(fund.members, 1), Frac(1, 1))

\* the persisted snapshots of the pass numbered run, oldest first
RunRows(table, run) == SelectSeq(table, LAMBDA row : row.run = run)

\* the rows are one snapshot for each basket of the list, in its order
OneRowPerBasket(rows, indexes) ==
    /\ Len(rows) = Len(indexes)
    /\ \A i \in 1..Len(rows) : rows[i].index_id = indexes[i].id

\* the pass of p was cancelled or its commit raised
PassLost(ps) == ps.pc \in {"cancelled", "crit_status", "crit_commit", "raised"}

\* C37: the snapshots and the status update of one collection pass are
\* committed together or not at all: the step that persists snapshots of a
\* pass persists one for every basket and applies the status update of the
\* pass; a pass cancelled by stop(), or whose commit fails, persists none of
\* its snapshots; no state has snapshots of only some baskets of a pass.
C37_PassCommittedAtomically ==
    /\ [](\A run \in 1..MaxRuns :
            \/ RunRows(db_prices, run) = <<>>
            \/ OneRowPerBasket(RunRows(db_prices, run), index_config))
    /\ [](\A p \in Executors :
            PassLost(pass[p]) => RunRows(db_prices, pass[p].run) = <<>>)
    /\ [][\A p \in Executors :
            (RunRows(db_prices, pass[p].run) # RunRows(db_prices', pass[p].run)) =>
                /\ pass[p].pc = "commit"
                /\ pass'[p].pc = "done"
                /\ RunRows(db_prices, pass[p].run) = <<>>
                /\ RunRows(db_prices', pass[p].run) = pass[p].pending
                /\ db_status' = Flushed(db_status, pass[p].status_write)]_vars
    /\ [][\A p \in Executors :
            (/\ pass[p].pc \in {"basket", "status", "commit", "commit_invalid",
                                "commit_aborted"}
             /\ pass'[p].pc \in {"cancelled", "crit_status"}) =>
                /\ db_prices' = db_prices
                /\ db_status' = db_status
                /\ pass'[p].pending = <<>>]_vars

\* the loop's pass was cancelled after it had valued both baskets, the
\* commit of the forced pass has failed after it had valued both, an earlier
\* pass is stored, and neither lost pass has a snapshot stored
C37_Witness ==
    /\ pass["loop"].pc = "cancelled"
    /\ Len(pass["loop"].valued) = Len(index_config)
    /\ pass["forced"].pc = "crit_status"
    /\ Len(pass["forced"].valued) = Len(index_config)
    /\ Len(index_config) > 1
    /\ db_prices # <<>>
    /\ RunRows(db_prices, pass["loop"].run) = <<>>
    /\ RunRows(db_prices, pass["forced"].run) = <<>>

\* C38: when a forced pass overlaps a scheduled pass, both runs are counted
\* and one status row exists afterwards: once no pass is in flight,
\* total_runs is the number of passes that have ended, each with its outcome
\* in its own counter, so total_runs = successful_runs + failed_runs; also
\* when the two passes are the first runs ever or their outcomes differ.
C38_OverlappingRunsBothCounted ==
    (overlapped /\ \A p \in Executors : pass[p].pc \in {"done", "raised"}) =>
        /\ db_status.exists
        /\ db_status.total_runs = finished
        /\ db_status.total_runs = db_status.successful_runs + db_status.failed_runs

\* the step is the valuation of the next basket of the pass of p
ValuesBasket(p) ==
    /\ pass[p].pc = "basket"
    /\ pass'[p].idx = pass[p].idx + 1

\* the collector computed the value of the basket less than the TTL ago
ComputedWithinTtl(index_id) ==
    /\ PriceKey(index_id) \in DOMAIN lastSet
    /\ now - lastSet[PriceKey(index_id)].t < TtlTicks

\* C39: a collection pass values each basket through the collector's own
\* TTL cache: a pass (scheduled or forced) that values a basket less than
\* cache_ttl_seconds after the collector last computed its value fetches no
\* quote and adds a success=true snapshot with the earlier price under the
\* timestamp of the new pass; once the entry has expired the pass computes
\* the value from newly fetched quotes.
C39_PassServedFromCache ==
    [][\A p \in Executors :
          ValuesBasket(p) =>
              LET index == pass[p].indexes[pass[p].idx]
                  key == PriceKey(index.id)
                  record == pass'[p].pending[Len(pass'[p].pending)]
              IN IF ComputedWithinTtl(index.id)
                 THEN /\ served'.hit
                      /\ served'.index_id = index.id
                      /\ UNCHANGED <<cache, cache_timestamps, lastSet>>
                      /\ record = SuccessRecord(index, pass[p].start_time,
                                                lastSet[key].value, pass[p].run)
                      /\ record.calculation_successful
                      /\ record.timestamp = pass[p].start_time
                 ELSE /\ ~served'.hit
                      /\ record.calculation_successful =>
                            /\ key \in DOMAIN lastSet'
                            /\ lastSet'[key].t = now
                            /\ record.price = lastSet'[key].value.price
                            /\ cache'[key] = lastSet'[key].value
                            /\ cache_timestamps'[key] = now]_vars

\* three passes have stored a successful snapshot of the same basket: the
\* second, taken within the TTL of the first, carries the price of the first
\* under a later timestamp; the third, taken after the expiry, the price
\* the collector computed at the time of that pass
C39_Witness ==
    \E i, j, k \in 1..Len(db_prices) :
        /\ db_prices[i].index_id = db_prices[j].index_id
        /\ db_prices[j].index_id = db_prices[k].index_id
        /\ db_prices[i].calculation_successful
        /\ db_prices[j].calculation_successful
        /\ db_prices[k].calculation_successful
        /\ db_prices[i].timestamp < db_prices[j].timestamp
        /\ db_prices[j].timestamp < db_prices[i].timestamp + TtlTicks
        /\ db_prices[j].price = db_prices[i].price
        /\ db_prices[k].timestamp >= db_prices[i].timestamp + TtlTicks
        /\ PriceKey(db_prices[k].index_id) \in DOMAIN lastSet
        /\ lastSet[PriceKey(db_prices[k].index_id)].t = db_prices[k].timestamp

=============================================================================
